---------------------------- MODULE Spec2Model ----------------------------
(***************************************************************************)
(* Model of the CryptoSentinel sentiment core (src/src/sentiment_utils.py), *)
(* of the collectors, the report generator and the pipeline of             *)
(* src/src/crypto_etl.py, and of a run of the DAG of                       *)
(* src/dags/crypto_sentinel_dag.py.                                        *)
(*                                                                         *)
(* Representation.                                                         *)
(*  - A Python str is a sequence of code points, each a TLA+ string: a     *)
(*    one-character string for an ASCII character, "U+1F680" and the like  *)
(*    for a code point outside ASCII.  Chars("moon") = <<"m","o","o","n">>.*)
(*  - A Python float is an exact decimal, held as an integer count of      *)
(*    millionths: 0.1 is 100000, 1.0 is 1000000.  The generic engine's     *)
(*    polarity is drawn from a grid of 1e-5, so every product with the     *)
(*    blending weights is an integer count of millionths.  Binary floating *)
(*    point rounding noise (about 1e-16) is not modelled: where the exact  *)
(*    blend is exactly 0.1 or -0.1 the model labels it 'Neutro', while the *)
(*    float the code compares can lie just beyond the threshold (the blend *)
(*    0.8*0.2 + 0.2*(-0.3) evaluates to 0.10000000000000003, 'Positivo').  *)
(*  - A Python value handed to the analyzer is a record [kind, s]: kind    *)
(*    "str" with its code points, "none", "int" (a value with no len()),   *)
(*    or "list" (a non-string value that has a len()) with its elements.   *)
(*  - TextBlob, the generic polarity engine, is outside the repository: a  *)
(*    call of it either raises or returns a polarity in [-1, 1] and a      *)
(*    subjectivity in [0, 1], chosen by the environment.                   *)
(*  - The network, the file system and S3 are outside the repository: the  *)
(*    answers of the price API, of the feeds and of the news API, whether  *)
(*    the report can be written and how the S3 step ends are chosen by the *)
(*    environment.  An average is kept exact as [sum, count].  Accented    *)
(*    letters of messages are written without the accent.                  *)
(*  - Airflow is outside the repository: a task is tried retries + 1 times,*)
(*    a task with the default trigger rule starts when all its upstream    *)
(*    tasks succeeded and is marked upstream_failed when one failed or was *)
(*    not run, a task with 'all_done' starts when they are all finished.   *)
(***************************************************************************)
EXTENDS Integers, Sequences, FiniteSets, TLC

VARIABLES
    crypto_terms,     \* CryptoSentimentAnalyzer.crypto_terms: the merged lexicon, in dict order
    positive_emojis,  \* CryptoSentimentAnalyzer.positive_emojis
    negative_emojis,  \* CryptoSentimentAnalyzer.negative_emojis
    op,               \* the operation of the last call: "idle" when none is pending
    arg,              \* the argument of the last call
    engine,           \* what the environment answered during the last call
    ret,              \* what the last call returned, or that it raised
    internal,         \* values the last call computed on the way (unrounded, with match positions)
    history,          \* of a session on one analyzer: the engine in use, the first record of
                      \* each text, the calls made
    dag_run           \* a run of the DAG crypto_sentinel_etl: the state of each task

vars ==
    <<crypto_terms, positive_emojis, negative_emojis, op, arg, engine, ret, internal,
      history, dag_run>>

analyzer == <<crypto_terms, positive_emojis, negative_emojis>>

\* what a call outside a session and outside a DAG run leaves alone
rest == <<analyzer, history, dag_run>>

----------------------------------------------------------------------------
(* Bounds of the model *)

\* the number of text fragments a cleaned text handed to analyze_crypto_terms is built from
MaxTermFrags == 3

\* the number of text fragments a raw text handed to analyze_enhanced_sentiment is built from
MaxFrags == 2

\* the number of items of a batch
MaxBatch == 2

\* the largest match count handed to calculate_confidence directly
MaxCount == 4
MaxOracle == 1
MaxCalls == 2

\* the number of items of a feed and of an answer of the news API
MaxItems == 2

\* the number of sentiment results and of items handed to the report generator
MaxRows == 2

----------------------------------------------------------------------------
(* Python strings *)

\* the code points of an ASCII string literal
Chars(str) == [i \in 1..Len(str) |-> SubSeq(str, i, i)]

RECURSIVE Flatten(_)
\* the concatenation of a sequence of strings
Flatten(ss) == IF ss = <<>> THEN <<>> ELSE Head(ss) \o Flatten(Tail(ss))

\* s[i:i+len(sub)] == sub
MatchAt(s, sub, i) ==
    /\ i + Len(sub) - 1 <= Len(s)
    /\ \A k \in 1..Len(sub) : s[i + k - 1] = sub[k]

\* sub in s
Contains(s, sub) == \E i \in 1..(Len(s) - Len(sub) + 1) : MatchAt(s, sub, i)

\* the least element of a non-empty set of integers
Min(S) == CHOOSE i \in S : \A j \in S : i <= j

RECURSIVE Starts(_, _)
\* the places of the matches a left-to-right scan from i takes, lens[j] being the length of
\* the match that starts at j (0 for none): a match is taken at the first place that has
\* one, and the scan goes on after its end
Starts(lens, i) ==
    LET at == {j \in i..Len(lens) : lens[j] > 0}
    IN  IF at = {} THEN {}
        ELSE {Min(at)} \cup Starts(lens, Min(at) + lens[Min(at)])

\* the result of replacing every match the scan takes by repl (empty, or one code point):
\* c is the new string, from[m] the index in s that c[m] was copied from, 0 for a code
\* point of repl
Substitute(s, lens, repl) ==
    LET starts == Starts(lens, 1)
        gone == {k \in 1..Len(s) : \E j \in starts : j <= k /\ k < j + lens[j]}
        kept == SelectSeq([k \in 1..Len(s) |-> k],
                          LAMBDA k : k \notin gone \/ (k \in starts /\ repl # <<>>))
    IN  [c |-> [m \in 1..Len(kept) |-> IF kept[m] \in starts THEN repl[1] ELSE s[kept[m]]],
         from |-> [m \in 1..Len(kept) |-> IF kept[m] \in starts THEN 0 ELSE kept[m]],
         gone |-> gone]

\* the length of the occurrence of the literal sub at each place of s
LiteralLens(s, sub) == [j \in 1..Len(s) |-> IF MatchAt(s, sub, j) THEN Len(sub) ELSE 0]

\* s.count(sub): the non-overlapping occurrences, left to right (sub is never empty here)
Count(s, sub) == Cardinality(Starts(LiteralLens(s, sub), 1))

UpperCase == Chars("ABCDEFGHIJKLMNOPQRSTUVWXYZ")
LowerCase == Chars("abcdefghijklmnopqrstuvwxyz")
Digits == Chars("0123456789")

Range(f) == {f[i] : i \in DOMAIN f}

LowerChar(c) ==
    IF c \in Range(UpperCase)
    THEN LowerCase[CHOOSE i \in 1..26 : UpperCase[i] = c]
    ELSE c

\* a lower() that changes nothing
Lower_nothing(s) == s

\* s.lower(): code points outside A-Z are left alone
Lower(s) == [i \in 1..Len(s) |-> LowerChar(s[i])]

\* \w of the re module, over the code points of the model
IsWord(c) == c \in Range(UpperCase) \cup Range(LowerCase) \cup Range(Digits) \cup {"_"}

\* \s of the re module
IsSpace(c) == c \in {" ", "\t", "\n", "\r"}

\* the character class of url_pattern: [a-zA-Z] | [0-9] | [$-_@.&+] | [!*\\(\\),]; the range
\* $-_ runs from 0x24 to 0x5F
IsUrlChar(c) ==
    c \in Range(UpperCase) \cup Range(LowerCase) \cup Range(Digits)
          \cup Range(Chars("$%&'()*+,-./:;<=>?@[\\]^_!"))

----------------------------------------------------------------------------
(* _init_crypto_dictionaries: weights are tenths in the source, millionths here; a key *)
(* is kept as a TLA+ string (the keys are ASCII) and turned into code points where it is *)
(* searched for                                                                         *)

Entry(term, tenths) == [term |-> term, score |-> tenths * 100000]

crypto_positive_high ==
    << Entry("moon", 9),
       Entry("mooning", 9),
       Entry("lambo", 9),
       Entry("rocket", 8),
       Entry("ath", 8),
       Entry("all-time high", 8),
       Entry("diamond hands", 7),
       Entry("hodl", 6),
       Entry("hold", 4),
       Entry("pump", 6),
       Entry("surge", 7),
       Entry("rally", 7),
       Entry("bull run", 8),
       Entry("bullish", 7),
       Entry("breakout", 7),
       Entry("green candle", 6),
       Entry("green", 3),
       Entry("profit", 6),
       Entry("gains", 7),
       Entry("buy the dip", 5),
       Entry("accumulate", 4),
       Entry("strong hands", 6) >>

crypto_positive_moderate ==
    << Entry("adoption", 4),
       Entry("institutional", 3),
       Entry("mainstream", 4),
       Entry("partnership", 5),
       Entry("integration", 4),
       Entry("upgrade", 5),
       Entry("bullish signal", 6),
       Entry("golden cross", 6),
       Entry("support level", 3),
       Entry("resistance break", 5),
       Entry("volume spike", 4),
       Entry("whale accumulation", 5) >>

crypto_negative_high ==
    << Entry("rekt", -9),
       Entry("liquidation", -9),
       Entry("liquidated", -9),
       Entry("rug pull", -9),
       Entry("rugpull", -9),
       Entry("scam", -9),
       Entry("ponzi", -9),
       Entry("crash", -8),
       Entry("dump", -7),
       Entry("dumping", -7),
       Entry("bear market", -7),
       Entry("bearish", -7),
       Entry("panic sell", -8),
       Entry("panic selling", -8),
       Entry("death cross", -7),
       Entry("red candle", -6),
       Entry("red", -3),
       Entry("loss", -6),
       Entry("losses", -6),
       Entry("bleeding", -7),
       Entry("brutal", -8) >>

crypto_negative_moderate ==
    << Entry("correction", -3),
       Entry("dip", -2),
       Entry("pullback", -2),
       Entry("decline", -4),
       Entry("sell", -3),
       Entry("selling pressure", -5),
       Entry("resistance", -2),
       Entry("overhead resistance", -3),
       Entry("weak hands", -4),
       Entry("fud", -6),
       Entry("fear", -5),
       Entry("uncertainty", -3),
       Entry("doubt", -4),
       Entry("volatile", -2),
       Entry("manipulation", -6),
       Entry("whale dump", -7),
       Entry("paper hands", -5) >>

crypto_neutral ==
    << Entry("blockchain", 0),
       Entry("mining", 0),
       Entry("hash", 0),
       Entry("wallet", 0),
       Entry("exchange", 0),
       Entry("transaction", 0),
       Entry("block", 0),
       Entry("node", 0),
       Entry("protocol", 0),
       Entry("fork", 0),
       Entry("halving", 0),
       Entry("difficulty", 0),
       Entry("market cap", 0),
       Entry("volume", 0),
       Entry("liquidity", 0),
       Entry("trading", 0),
       Entry("analysis", 0),
       Entry("chart", 0),
       Entry("technical", 0),
       Entry("fundamental", 0) >>

\* The dict that successive insertions of items leave: a key keeps the place of its first
\* insertion and holds the value of its last one.
DictOf(items) ==
    LET firsts == SelectSeq([i \in 1..Len(items) |-> i],
                            LAMBDA i : \A j \in 1..(i - 1) : items[j].term # items[i].term)
        last(i) == CHOOSE k \in i..Len(items) :
                      /\ items[k].term = items[i].term
                      /\ \A j \in (k + 1)..Len(items) : items[j].term # items[i].term
    IN  [m \in 1..Len(firsts) |-> items[last(firsts[m])]]

\* self.crypto_terms after _init_crypto_dictionaries: an empty dict updated with the five
\* bands in turn
init_crypto_dictionaries ==
    DictOf(crypto_positive_high \o crypto_positive_moderate \o crypto_negative_high
           \o crypto_negative_moderate \o crypto_neutral)

\* self.positive_emojis after _init_preprocessing_patterns, each emoji as its code points
init_positive_emojis ==
    << <<"U+1F680">>, <<"U+1F319">>, <<"U+1F48E">>, <<"U+1F525">>, <<"U+1F4C8">>,
       <<"U+1F49A">>, <<"U+2705">>, <<"U+1F389">>, <<"U+1F4AA">>, <<"U+1F51D">> >>

\* self.negative_emojis after _init_preprocessing_patterns (the down arrow is two code points)
init_negative_emojis ==
    << <<"U+1F4C9">>, <<"U+1F494">>, <<"U+1F62D">>, <<"U+1F630">>, <<"U+1F534">>,
       <<"U+274C">>, <<"U+1F4B8">>, <<"U+2B07", "U+FE0F">>, <<"U+1F631">>, <<"U+1FA78">> >>

----------------------------------------------------------------------------
(* Python values *)

Str(s) == [kind |-> "str", s |-> s]
PyNone == [kind |-> "none", s |-> <<>>]
PyInt == [kind |-> "int", s |-> <<>>]
PyList(elems) == [kind |-> "list", s |-> elems]

\* bool(v): None is false, a str or list is true when it is not empty, the int of the model
\* (42) is true
Truthy(v) ==
    CASE v.kind = "none" -> FALSE
      [] v.kind = "int" -> TRUE
      [] OTHER -> v.s # <<>>

\* isinstance(v, str)
IsStr(v) == v.kind = "str"

\* len(v) raises TypeError for None and for an int
HasLen(v) == v.kind \in {"str", "list"}

----------------------------------------------------------------------------
(* preprocess_text *)

RECURSIVE SumEmoji(_, _)
\* sum of text.count(emoji) over a list of emojis
SumEmoji(emojis, text) ==
    IF emojis = <<>> THEN 0
    ELSE Count(text, Head(emojis)) + SumEmoji(Tail(emojis), text)

\* membership of a code point in a character class of the patterns
InClass(cls, c) ==
    CASE cls = "url" -> IsUrlChar(c)
      [] cls = "word" -> IsWord(c)
      [] cls = "space" -> IsSpace(c)

\* the length of the longest run of code points of the class, starting at i
RunLen(s, i, cls) ==
    Min({j \in i..(Len(s) + 1) : j > Len(s) \/ ~InClass(cls, s[j])} \cup {Len(s) + 1}) - i

\* the length of the match of url_pattern at i, 0 when there is none:
\* http[s]?:// and then one or more characters of the class
UrlMatchLen(s, i) ==
    LET scheme == IF MatchAt(s, Chars("https://"), i) THEN 8
                  ELSE IF MatchAt(s, Chars("http://"), i) THEN 7
                  ELSE 0
        run == RunLen(s, i + scheme, "url")
    IN  IF scheme > 0 /\ run > 0 THEN scheme + run ELSE 0

\* the length of the match of mention_pattern (@\w+) at i, 0 when there is none
MentionMatchLen(s, i) ==
    IF s[i] = "@" /\ RunLen(s, i + 1, "word") > 0
    THEN 1 + RunLen(s, i + 1, "word")
    ELSE 0

\* the length of the match of the pattern at i, 0 when there is none
MatchLen(pattern, s, i) ==
    CASE pattern = "url" -> UrlMatchLen(s, i)
      [] pattern = "mention" -> MentionMatchLen(s, i)
      [] pattern = "spaces" -> RunLen(s, i, "space")

\* re.sub(pattern, repl, s): the matches are taken left to right, each the longest at its
\* place
ReSub(pattern, repl, s) ==
    Substitute(s, [j \in 1..Len(s) |-> MatchLen(pattern, s, j)], repl).c

\* s.strip()
Strip(s) ==
    LET keep == {i \in 1..Len(s) : ~IsSpace(s[i])}
    IN  IF keep = {} THEN <<>>
        ELSE SubSeq(s, Min(keep), CHOOSE i \in keep : \A j \in keep : i >= j)

\* preprocess_text(text): the cleaned text and the emoji score (0.3 per emoji, counted on the
\* original text)
preprocess_text(text) ==
    IF ~Truthy(text) \/ ~IsStr(text)
    THEN [cleaned |-> <<>>, emoji_score |-> 0]
    ELSE LET lowered == Lower(text.s)
             no_url == ReSub("url", <<>>, lowered)
             no_mention == ReSub("mention", <<>>, no_url)
             collapsed == ReSub("spaces", <<" ">>, no_mention)
         IN  [cleaned |-> Strip(collapsed),
              emoji_score |-> SumEmoji(positive_emojis, text.s) * 300000
                              - SumEmoji(negative_emojis, text.s) * 300000]

----------------------------------------------------------------------------
(* analyze_crypto_terms *)

\* the length of the longest key of the lexicon
MaxTermLen(terms) ==
    LET lens == {Len(terms[i].term) : i \in 1..Len(terms)}
    IN  IF lens = {} THEN 0 ELSE CHOOSE n \in lens : \A m \in lens : m <= n

\* the items of the lexicon whose key has length n, in dict order
OfLen(terms, n) == SelectSeq(terms, LAMBDA e : Len(e.term) = n)

\* the lexicon iterated as the dict holds it, without the sort
SortedTerms_dict_order(terms) == terms

\* sorted(self.crypto_terms.items(), key=lambda x: len(x[0]), reverse=True): the sort is
\* stable, so keys of one length keep their dict order
SortedTerms(terms) ==
    LET top == MaxTermLen(terms)
    IN  Flatten([k \in 1..top |-> OfLen(terms, top + 1 - k)])

\* The working copy text_lower is held with, for every code point, the position it had in
\* the text handed in (0 for a space put in by an erasure): c is the string the code works
\* on, p records where each of its code points came from.
Working(s) == [c |-> s, p |-> [i \in 1..Len(s) |-> i]]

\* a loop that leaves the working copy as it is
Erase_nothing(w, term) == w

\* text_lower = text_lower.replace(term, ' '): every occurrence, left to right, not
\* overlapping, becomes one space
Erase(w, term) ==
    LET sub == Substitute(w.c, LiteralLens(w.c, term), <<" ">>)
    IN  [c |-> sub.c,
         p |-> [m \in 1..Len(sub.c) |-> IF sub.from[m] = 0 THEN 0 ELSE w.p[sub.from[m]]]]

\* the positions (of the text handed in) of the code points that replace(term, ' ') removes
Erased(w, term) ==
    {w.p[k] : k \in Substitute(w.c, LiteralLens(w.c, term), <<" ">>).gone} \ {0}

RECURSIVE TermLoop(_, _, _, _)
\* for term, score in sorted_terms, from the k-th on: a term found in the working copy adds
\* its score, is appended to matches and is erased from the working copy; the terms not
\* found change nothing, so the loop is taken from one found term to the next
TermLoop(sorted_terms, k, w, acc) ==
    LET found == {j \in k..Len(sorted_terms) : Contains(w.c, Chars(sorted_terms[j].term))}
    IN  IF found = {} THEN acc
        ELSE LET e == sorted_terms[Min(found)]
             IN  TermLoop(sorted_terms, Min(found) + 1, Erase(w, Chars(e.term)),
                          [crypto_score |-> acc.crypto_score + e.score,
                           matches |-> Append(acc.matches, e),
                           spans |-> Append(acc.spans, Erased(w, Chars(e.term)))])

\* analyze_crypto_terms(text): crypto_score, matches and match_count are what the code
\* returns; spans[k] is the set of positions of the text that the erasure of matches[k]
\* consumed
analyze_crypto_terms(text) ==
    LET done == TermLoop(SortedTerms(crypto_terms), 1, Working(Lower(text)),
                         [crypto_score |-> 0, matches |-> <<>>, spans |-> <<>>])
    IN  [crypto_score |-> done.crypto_score,
         matches |-> done.matches,
         match_count |-> Len(done.matches),
         spans |-> done.spans]

----------------------------------------------------------------------------
(* calculate_confidence *)

Abs(x) == IF x < 0 THEN -x ELSE x

\* points with the bands of the polarity and of the emoji score closed at their lower end
confidence_score_closed_bands(crypto_matches, textblob_polarity, emoji_score) ==
    (IF crypto_matches >= 3 THEN 3
     ELSE IF crypto_matches >= 2 THEN 2
     ELSE IF crypto_matches >= 1 THEN 1
     ELSE 0)
    + (IF Abs(textblob_polarity) >= 500000 THEN 2
       ELSE IF Abs(textblob_polarity) >= 200000 THEN 1
       ELSE 0)
    + (IF Abs(emoji_score) >= 300000 THEN 1 ELSE 0)

\* the points of calculate_confidence before banding
confidence_score(crypto_matches, textblob_polarity, emoji_score) ==
    (IF crypto_matches >= 3 THEN 3
     ELSE IF crypto_matches >= 2 THEN 2
     ELSE IF crypto_matches >= 1 THEN 1
     ELSE 0)
    + (IF Abs(textblob_polarity) > 500000 THEN 2
       ELSE IF Abs(textblob_polarity) > 200000 THEN 1
       ELSE 0)
    + (IF Abs(emoji_score) > 300000 THEN 1 ELSE 0)

\* a banding that asks 5 points for 'Alta'
calculate_confidence_alta_from_5(crypto_matches, textblob_polarity, emoji_score) ==
    LET score == confidence_score(crypto_matches, textblob_polarity, emoji_score)
    IN  IF score >= 5 THEN "Alta"
        ELSE IF score >= 2 THEN "Media"
        ELSE "Baixa"

\* the tier; 'M\'edia' is written "Media"
calculate_confidence(crypto_matches, textblob_polarity, emoji_score) ==
    LET score == confidence_score(crypto_matches, textblob_polarity, emoji_score)
    IN  IF score >= 4 THEN "Alta"
        ELSE IF score >= 2 THEN "Media"
        ELSE "Baixa"

----------------------------------------------------------------------------
(* analyze_enhanced_sentiment *)

\* round(x, 4): to the nearest multiple of 0.0001, a tie to the even one
Round4(x) ==
    LET q == x \div 100
        r == x % 100
    IN  100 * (IF r > 50 \/ (r = 50 /\ q % 2 = 1) THEN q + 1 ELSE q)

\* _get_neutral_result()
get_neutral_result ==
    [polarity |-> 0,
     subjectivity |-> 0,
     sentiment_label |-> "Neutro",
     confidence |-> "Baixa",
     textblob_polarity |-> 0,
     crypto_score |-> 0,
     emoji_score |-> 0,
     crypto_matches |-> 0,
     crypto_terms_found |-> <<>>,
     analysis_method |-> "error_fallback"]

\* a blend that keeps the lexicon weights when nothing matched
final_polarity_one_weighting(crypto_analysis, textblob_polarity, emoji_score) ==
    (crypto_analysis.crypto_score * 6 + textblob_polarity * 3 + emoji_score * 1) \div 10

\* step 4: the blended polarity, in millionths; the weights are tenths
final_polarity(crypto_analysis, textblob_polarity, emoji_score) ==
    IF crypto_analysis.match_count > 0
    THEN (crypto_analysis.crypto_score * 6 + textblob_polarity * 3 + emoji_score * 1) \div 10
    ELSE (crypto_analysis.crypto_score * 0 + textblob_polarity * 8 + emoji_score * 2) \div 10

\* step 5: the label of the blended polarity
sentiment_label(polarity) ==
    IF polarity > 100000 THEN "Positivo"
    ELSE IF polarity < -100000 THEN "Negativo"
    ELSE "Neutro"

\* analysis_method that names the lexicon path whatever the count
analysis_method_fixed(match_count) == "enhanced_crypto"

\* the method named in the record
analysis_method(match_count) ==
    IF match_count > 0 THEN "enhanced_crypto" ELSE "textblob_standard"

\* TakesFallback without the except clause
TakesFallback_guard_only(text, blob) == ~Truthy(text) \/ ~IsStr(text)

\* whether analyze_enhanced_sentiment(text) takes a fallback path: the guard of its first
\* line, or the except clause when TextBlob raises
TakesFallback(text, blob) == ~Truthy(text) \/ ~IsStr(text) \/ blob.raises

\* step 3 of the try block, after preprocess_text answered pre
terms_of(pre) == [pre |-> pre, crypto_analysis |-> analyze_crypto_terms(pre.cleaned)]

\* steps 1 and 3 of the try block: what it computes from the text alone, whatever TextBlob
\* answers in step 2
text_steps(text) == terms_of(preprocess_text(text))

\* the values the try block has computed after step 4, ts being those of steps 1 and 3 and
\* blob the answer of TextBlob in step 2
enhanced_steps(ts, blob) ==
    [cleaned_text |-> ts.pre.cleaned,
     emoji_score |-> ts.pre.emoji_score,
     textblob_polarity |-> blob.polarity,
     crypto_analysis |-> ts.crypto_analysis,
     final_polarity |-> final_polarity(ts.crypto_analysis, blob.polarity,
                                       ts.pre.emoji_score)]

\* steps 5 and 6 and the dict the try block returns, st being the values computed before
enhanced_record(st, blob) ==
    [polarity |-> Round4(st.final_polarity),
     subjectivity |-> Round4(blob.subjectivity),
     sentiment_label |-> sentiment_label(st.final_polarity),
     confidence |-> calculate_confidence(st.crypto_analysis.match_count,
                                         blob.polarity, st.emoji_score),
     textblob_polarity |-> Round4(blob.polarity),
     crypto_score |-> Round4(st.crypto_analysis.crypto_score),
     emoji_score |-> Round4(st.emoji_score),
     crypto_matches |-> st.crypto_analysis.match_count,
     crypto_terms_found |->
         [k \in 1..st.crypto_analysis.match_count |-> st.crypto_analysis.matches[k].term],
     analysis_method |-> analysis_method(st.crypto_analysis.match_count)]

\* what analyze_enhanced_sentiment(text) returns, TextBlob answering blob and ts being
\* text_steps(text)
enhanced_result(text, blob, ts) ==
    IF TakesFallback(text, blob) THEN get_neutral_result
    ELSE enhanced_record(enhanced_steps(ts, blob), blob)

\* analyze_enhanced_sentiment(text), TextBlob answering blob
analyze_enhanced_sentiment(text, blob) == enhanced_result(text, blob, text_steps(text))

----------------------------------------------------------------------------
(* analyze_batch_sentiment *)

\* len(text) raises TypeError for a value without a length; text[:100] + "..." raises
\* TypeError for a list of more than 100 elements
OriginalTextRaises(text) == ~HasLen(text) \/ (~IsStr(text) /\ Len(text.s) > 100)

\* original_text without the cut at 100 code points
original_text_uncut(text) == text

\* text[:100] + "..." if len(text) > 100 else text
original_text(text) ==
    IF Len(text.s) > 100 THEN Str(SubSeq(text.s, 1, 100) \o Chars("...")) ELSE text

\* the body of the loop for the item at index i (from 0): the analysis with text_index and
\* original_text added
batch_record(i, text, analysis) ==
    [polarity |-> analysis.polarity,
     subjectivity |-> analysis.subjectivity,
     sentiment_label |-> analysis.sentiment_label,
     confidence |-> analysis.confidence,
     textblob_polarity |-> analysis.textblob_polarity,
     crypto_score |-> analysis.crypto_score,
     emoji_score |-> analysis.emoji_score,
     crypto_matches |-> analysis.crypto_matches,
     crypto_terms_found |-> analysis.crypto_terms_found,
     analysis_method |-> analysis.analysis_method,
     text_index |-> i,
     original_text |-> original_text(text)]

\* what CryptoSentimentAnalyzer.analyze_batch_sentiment(texts) does, TextBlob answering
\* blobs[i] for texts[i] and steps[i] being text_steps(texts[i]): the loop has no try block,
\* so the first item whose original_text cannot be built ends the call with that exception;
\* the statistics after the loop only log
batch_result(texts, blobs, steps) ==
    IF texts = <<>> THEN [raised |-> FALSE, value |-> <<>>]
    ELSE IF \E i \in 1..Len(texts) : OriginalTextRaises(texts[i])
         THEN [raised |-> TRUE, value |-> "TypeError"]
         ELSE [raised |-> FALSE,
               value |-> [i \in 1..Len(texts) |->
                             batch_record(i - 1, texts[i],
                                          enhanced_result(texts[i], blobs[i], steps[i]))]]

\* analyze_batch_sentiment(texts), TextBlob answering blobs[i] for texts[i]
analyze_batch_sentiment(texts, blobs) ==
    batch_result(texts, blobs, [i \in 1..Len(texts) |-> text_steps(texts[i])])

----------------
(* SentimentAnalyzer of crypto_etl.py: the wrapper the pipeline calls *)

\* the dict analyze_text_sentiment builds from the enhanced result
compatible_single(enhanced_result_) ==
    [polarity |-> enhanced_result_.polarity,
     subjectivity |-> enhanced_result_.subjectivity,
     sentiment_label |-> enhanced_result_.sentiment_label,
     confidence |-> enhanced_result_.confidence,
     analysis_method |-> enhanced_result_.analysis_method,
     crypto_matches |-> enhanced_result_.crypto_matches,
     crypto_terms_found |-> enhanced_result_.crypto_terms_found]

\* what SentimentAnalyzer.analyze_text_sentiment(text) returns, ts being text_steps(text);
\* the enhanced analyzer never raises, so the except clause and _fallback_analysis are
\* never entered
text_sentiment_result(text, blob, ts) ==
    IF ~Truthy(text) \/ ~IsStr(text)
    THEN [polarity |-> 0,
          subjectivity |-> 0,
          sentiment_label |-> "Neutro",
          confidence |-> "Baixa"]
    ELSE compatible_single(enhanced_result(text, blob, ts))

\* SentimentAnalyzer.analyze_text_sentiment(text), TextBlob answering blob
analyze_text_sentiment(text, blob) == text_sentiment_result(text, blob, text_steps(text))

\* the dict SentimentAnalyzer.analyze_batch_sentiment builds from one enhanced result
compatible_result(enhanced_result_) ==
    [polarity |-> enhanced_result_.polarity,
     subjectivity |-> enhanced_result_.subjectivity,
     sentiment_label |-> enhanced_result_.sentiment_label,
     confidence |-> enhanced_result_.confidence,
     text_index |-> enhanced_result_.text_index,
     original_text |-> enhanced_result_.original_text,
     analysis_method |-> enhanced_result_.analysis_method,
     crypto_matches |-> enhanced_result_.crypto_matches,
     crypto_terms_found |-> enhanced_result_.crypto_terms_found,
     textblob_polarity |-> enhanced_result_.textblob_polarity,
     crypto_score |-> enhanced_result_.crypto_score,
     emoji_score |-> enhanced_result_.emoji_score]

\* the conversion loop of SentimentAnalyzer.analyze_batch_sentiment; an exception of the
\* enhanced analyzer is not caught
converted(enhanced_results) ==
    IF enhanced_results.raised THEN enhanced_results
    ELSE [raised |-> FALSE,
          value |-> [i \in 1..Len(enhanced_results.value) |->
                        compatible_result(enhanced_results.value[i])]]

\* what SentimentAnalyzer.analyze_batch_sentiment(texts) does, steps[i] being
\* text_steps(texts[i])
wrapper_batch_result(texts, blobs, steps) ==
    IF texts = <<>> THEN [raised |-> FALSE, value |-> <<>>]
    ELSE converted(batch_result(texts, blobs, steps))

\* SentimentAnalyzer.analyze_batch_sentiment(texts)
wrapper_analyze_batch_sentiment(texts, blobs) ==
    wrapper_batch_result(texts, blobs, [i \in 1..Len(texts) |-> text_steps(texts[i])])

----------------
(* The inputs of the model *)

\* all sequences of at most n elements of S
SeqsUpTo(S, n) == UNION {[1..k -> S] : k \in 0..n}

\* what TextBlob(cleaned_text).sentiment does: it raises, or answers a polarity and a
\* subjectivity
RaisingBlob == [raises |-> TRUE, polarity |-> 0, subjectivity |-> 0]
Blob(p, sub) == [raises |-> FALSE, polarity |-> p, subjectivity |-> sub]

\* the engine was not called (the text was rejected before the try block)
NotCalled == [raises |-> FALSE, polarity |-> 0, subjectivity |-> 0]

\* polarities in [-1, 1], in millionths: the ends, zero, and values at and next to the
\* thresholds of calculate_confidence (0.2, 0.5) and of the label (0.8 * 0.125 = 0.1)
Polarities ==
    {-1000000, -500010, -500000, -200010, -200000, -125050, -125000, 0,
     125000, 125050, 200000, 200010, 500000, 500010, 1000000}

Subjectivities == {0, 333333}

Blobs == {RaisingBlob} \cup {Blob(p, sub) : p \in Polarities, sub \in Subjectivities}

\* the outcomes of the engine for a text: none when the text is rejected before the call
BlobsFor(text, blobs) == IF Truthy(text) /\ IsStr(text) THEN blobs ELSE {NotCalled}

ScenarioText == Chars("Bitcoin to the moon! Diamond hands HODL")

NegativeScenarioText == Chars("rug pull scam, total rekt, liquidated")

\* the fragments raw texts are built from: plain words, lexicon terms and phrases, one
\* positive and one negative emoji, a mention and a URL
RawFrags ==
    {Chars("Bitcoin "), Chars("green candle"), Chars(" total rekt, scam"),
     <<"U+1F680">>, <<"U+1F4C9">>, Chars(" @bob http://x.co/a?b=1 "), Chars("HODL the Moon")}

RawTexts ==
    {Flatten(fs) : fs \in SeqsUpTo(RawFrags, MaxFrags)}
        \cup {ScenarioText, NegativeScenarioText}

\* values handed to analyze_enhanced_sentiment: texts (the empty one among them), None, an
\* int and a list
EnhancedInputs ==
    {Str(t) : t \in RawTexts} \cup {PyNone, PyInt, PyList(<<"a">>)}

\* emoji scores handed to calculate_confidence directly: multiples of 0.3
EmojiScores == {-600000, -300000, 0, 300000, 600000}

\* the fragments cleaned texts handed to analyze_crypto_terms are built from
TermFrags ==
    {Chars("green candle"), Chars("green"), Chars(" "), Chars("death cros"),
     Chars("selling pressure"), Chars("bull"), Chars("run")}

TermTexts == {Flatten(fs) : fs \in SeqsUpTo(TermFrags, MaxTermFrags)}

\* a text of 102 code points
LongText == Chars("the moon ") \o [i \in 1..91 |-> "y"] \o Chars("z!")

\* the items of a batch: texts (the empty one, one of more than 100 code points), None, an
\* int and a list
BatchValues ==
    {Str(<<>>), Str(Chars("to the moon")), Str(Chars("nice day")), Str(LongText),
     PyNone, PyInt, PyList(<<"a", "b">>)}

\* what TextBlob answers for an item of a batch
BatchBlobs == {RaisingBlob, Blob(0, 0), Blob(600000, 500000)}

\* an item of a batch with what TextBlob answers for it
BatchItems ==
    {it \in [text : BatchValues, blob : BatchBlobs \cup {NotCalled}] :
        it.blob \in BlobsFor(it.text, BatchBlobs)}

----------------------------------------------------------------------------
(* The state machine: a CryptoSentimentAnalyzer and a SentimentAnalyzer are built, then *)
(* their methods are called one at a time.                                              *)

Nothing == <<>>

Init ==
    /\ crypto_terms = init_crypto_dictionaries
    /\ positive_emojis = init_positive_emojis
    /\ negative_emojis = init_negative_emojis
    /\ op = "idle"
    /\ arg = Nothing
    /\ engine = Nothing
    /\ ret = Nothing
    /\ internal = Nothing
    /\ history = Nothing
    /\ dag_run = Nothing

\* a call that returns value
Returned(value) == [raised |-> FALSE, value |-> value]

\* a call that an exception leaves
Raised(exc) == [raised |-> TRUE, value |-> exc]

\* the call analyze_enhanced_sentiment(text), ts being text_steps(text)
EnhancedOn(text, ts) ==
    \E blob \in BlobsFor(text, Blobs) :
        /\ op' = "analyze_enhanced_sentiment"
        /\ arg' = text
        /\ engine' = blob
        /\ ret' = Returned(enhanced_result(text, blob, ts))
        /\ internal' = IF TakesFallback(text, blob) THEN Nothing
                       ELSE enhanced_steps(ts, blob)

\* CryptoSentimentAnalyzer.analyze_enhanced_sentiment(text)
CallEnhanced ==
    /\ op = "idle"
    /\ \E text \in EnhancedInputs : EnhancedOn(text, text_steps(text))
    /\ UNCHANGED rest

\* the call analyze_text_sentiment(text), ts being text_steps(text)
TextSentimentOn(text, ts) ==
    \E blob \in BlobsFor(text, Blobs) :
        /\ op' = "analyze_text_sentiment"
        /\ arg' = text
        /\ engine' = blob
        /\ ret' = Returned(text_sentiment_result(text, blob, ts))
        /\ internal' = Nothing

\* SentimentAnalyzer.analyze_text_sentiment(text)
CallTextSentiment ==
    /\ op = "idle"
    /\ \E text \in EnhancedInputs : TextSentimentOn(text, text_steps(text))
    /\ UNCHANGED rest

\* CryptoSentimentAnalyzer.calculate_confidence(crypto_matches, textblob_polarity, emoji_score)
CallConfidence ==
    /\ op = "idle"
    /\ \E m \in 0..MaxCount, t \in Polarities, e \in EmojiScores :
            /\ op' = "calculate_confidence"
            /\ arg' = [crypto_matches |-> m, textblob_polarity |-> t, emoji_score |-> e]
            /\ engine' = Nothing
            /\ ret' = Returned(calculate_confidence(m, t, e))
            /\ internal' = Nothing
    /\ UNCHANGED rest

\* CryptoSentimentAnalyzer.analyze_crypto_terms(text), on a cleaned text
CallTerms ==
    /\ op = "idle"
    /\ \E text \in TermTexts :
            /\ op' = "analyze_crypto_terms"
            /\ arg' = text
            /\ engine' = Nothing
            /\ ret' = Returned(analyze_crypto_terms(text))
            /\ internal' = Nothing
    /\ UNCHANGED rest

\* the items of a batch, each with the text_steps of its text
Scored(items) ==
    {[text |-> it.text, blob |-> it.blob, ts |-> text_steps(it.text)] : it \in items}

\* the call analyze_batch_sentiment(texts), of the analyzer or of the wrapper, on a list
\* drawn from the scored items
BatchOn(name, scored) ==
    \E items \in SeqsUpTo(scored, MaxBatch) :
        LET texts == [i \in 1..Len(items) |-> items[i].text]
            blobs == [i \in 1..Len(items) |-> items[i].blob]
            steps == [i \in 1..Len(items) |-> items[i].ts]
        IN  /\ op' = name
            /\ arg' = texts
            /\ engine' = blobs
            /\ ret' = IF name = "analyze_batch_sentiment"
                      THEN batch_result(texts, blobs, steps)
                      ELSE wrapper_batch_result(texts, blobs, steps)
            /\ internal' = Nothing

\* CryptoSentimentAnalyzer.analyze_batch_sentiment(texts)
CallBatch ==
    /\ op = "idle"
    /\ BatchOn("analyze_batch_sentiment", Scored(BatchItems))
    /\ UNCHANGED rest

\* SentimentAnalyzer.analyze_batch_sentiment(texts)
CallWrapperBatch ==
    /\ op = "idle"
    /\ BatchOn("SentimentAnalyzer.analyze_batch_sentiment", Scored(BatchItems))
    /\ UNCHANGED rest

\* the caller takes the result; the next call can start
Return ==
    /\ op # "idle"
    /\ op' = "idle"
    /\ arg' = Nothing
    /\ engine' = Nothing
    /\ ret' = Nothing
    /\ internal' = Nothing
    /\ UNCHANGED rest

\* calls of the single-text operations
Next == CallEnhanced \/ CallTextSentiment \/ CallConfidence \/ Return

Spec == Init /\ [][Next]_vars

\* calls of the term matcher
NextTerms == CallTerms \/ Return

SpecTerms == Init /\ [][NextTerms]_vars

\* calls of the batch operations
NextBatch == CallBatch \/ CallWrapperBatch \/ Return

SpecBatch == Init /\ [][NextBatch]_vars

----------------------------------------------------------------------------
(* A session: calls on one analyzer, one after the other, with a deterministic engine *)

\* the answers a deterministic engine is made of
OracleBlobs == <<RaisingBlob, Blob(0, 0), Blob(600000, 500000), Blob(-200010, 333333)>>

\* TextBlob(cleaned).sentiment of the engine number k: a function of the text it is given
TextBlobOf(k, cleaned) == OracleBlobs[((k + Len(cleaned)) % Len(OracleBlobs)) + 1]

\* texts scored in a session: the empty one, one with a lexicon term, one with lexicon
\* terms and an emoji
SessionInputs ==
    {Str(<<>>), Str(Chars("to the moon")),
     Str(Chars("HODL green candle ") \o <<"U+1F680">>)}

\* a lexicon that lost its first term
crypto_terms_consumed(terms) == SubSeq(terms, 2, Len(terms))

\* a lexicon sorted in place
crypto_terms_sorted_in_place(terms) == SortedTerms(terms)

\* self.crypto_terms after a call: analyze_crypto_terms iterates over a sorted copy of the
\* items and rebinds only its local text_lower; no method assigns to the dict
crypto_terms_after(terms) == terms

InitSession ==
    /\ crypto_terms = init_crypto_dictionaries
    /\ positive_emojis = init_positive_emojis
    /\ negative_emojis = init_negative_emojis
    /\ op = "idle"
    /\ arg = Nothing
    /\ engine = Nothing
    /\ ret = Nothing
    /\ internal = Nothing
    /\ \E k \in 0..MaxOracle :
          history = [oracle |-> k,
                     first |-> <<>>,
                     calls |-> [t \in SessionInputs |-> 0],
                     batches |-> 0]
    /\ dag_run = Nothing

\* the session inputs, each with the text_steps of its text
SessionScored == {[text |-> t, ts |-> text_steps(t)] : t \in SessionInputs}

\* what the engine of the session answers for a scored input
AnswerOf(it) ==
    IF Truthy(it.text) /\ IsStr(it.text)
    THEN TextBlobOf(history.oracle, it.ts.pre.cleaned)
    ELSE NotCalled

\* what a call of a session does to the analyzer
AnalyzerAfterCall ==
    /\ crypto_terms' = crypto_terms_after(crypto_terms)
    /\ UNCHANGED <<positive_emojis, negative_emojis>>

\* a call analyze_enhanced_sentiment(text) of the session, on a scored input
EnhancedInSession(scored) ==
    \E it \in scored :
        LET record == enhanced_result(it.text, AnswerOf(it), it.ts)
        IN  /\ history.calls[it.text] < MaxCalls
            /\ op' = "analyze_enhanced_sentiment"
            /\ arg' = it.text
            /\ engine' = AnswerOf(it)
            /\ ret' = Returned(record)
            /\ internal' = Nothing
            /\ history' = [history EXCEPT
                              !.calls[it.text] = @ + 1,
                              !.first = IF it.text \in DOMAIN @ THEN @
                                        ELSE (it.text :> record) @@ @]

\* analyze_enhanced_sentiment(text) in a session
SessionEnhanced ==
    /\ op = "idle"
    /\ EnhancedInSession(SessionScored)
    /\ AnalyzerAfterCall
    /\ UNCHANGED dag_run

\* a call analyze_batch_sentiment(texts) of the session, on a list of scored inputs
BatchInSession(scored) ==
    \E items \in SeqsUpTo(scored, MaxBatch) :
        LET texts == [i \in 1..Len(items) |-> items[i].text]
            blobs == [i \in 1..Len(items) |-> AnswerOf(items[i])]
            steps == [i \in 1..Len(items) |-> items[i].ts]
        IN  /\ history.batches < MaxCalls
            /\ op' = "analyze_batch_sentiment"
            /\ arg' = texts
            /\ engine' = blobs
            /\ ret' = batch_result(texts, blobs, steps)
            /\ internal' = Nothing
            /\ history' = [history EXCEPT !.batches = @ + 1]

\* analyze_batch_sentiment(texts) in a session
SessionBatch ==
    /\ op = "idle"
    /\ BatchInSession(SessionScored)
    /\ AnalyzerAfterCall
    /\ UNCHANGED dag_run

\* analyze_crypto_terms(text) in a session, on the cleaned text of a session input
SessionTerms ==
    /\ op = "idle"
    /\ \E it \in SessionScored :
          /\ op' = "analyze_crypto_terms"
          /\ arg' = it.ts.pre.cleaned
          /\ engine' = Nothing
          /\ ret' = Returned(it.ts.crypto_analysis)
          /\ internal' = Nothing
    /\ AnalyzerAfterCall
    /\ UNCHANGED <<history, dag_run>>

\* preprocess_text(text) in a session
SessionPreprocess ==
    /\ op = "idle"
    /\ \E it \in SessionScored :
          /\ op' = "preprocess_text"
          /\ arg' = it.text
          /\ engine' = Nothing
          /\ ret' = Returned(it.ts.pre)
          /\ internal' = Nothing
    /\ UNCHANGED rest

\* calls of a session
NextSession ==
    SessionEnhanced \/ SessionBatch \/ SessionTerms \/ SessionPreprocess \/ Return

SpecSession == InitSession /\ [][NextSession]_vars

----------------------------------------------------------------------------
(* TwitterDataCollector of crypto_etl.py: the RSS collection and the alternative source *)

\* the feeds collect_bitcoin_tweets_rss reads, in the order of the list
rss_sources ==
    <<"https://rss.cnn.com/rss/money_latest.rss",
      "https://feeds.finance.yahoo.com/rss/2.0/headline?s=BTC-USD&region=US&lang=en-US">>

\* max_tweets of collect_bitcoin_tweets_rss
max_tweets == 20

\* an element an item of a feed does not have (item.find(...) is None)
Absent == [kind |-> "absent", s |-> <<>>]

\* what a source answers: the request fails (session.get or raise_for_status raises), the
\* content is not XML (ET.fromstring raises), or the document holds these items
FetchFails == [status |-> "fetch_fails", items |-> <<>>]
ParseFails == [status |-> "parse_fails", items |-> <<>>]
Parsed(items) == [status |-> "ok", items |-> items]

\* an item of a feed: the text of its title and description elements (Absent without the
\* element, None for an element without text)
RssItem(title, description) == [title |-> title, description |-> description]

\* str(v) in an f-string
Format(v) == IF v.kind = "none" THEN Chars("None") ELSE v.s

\* a filter that keeps every item
mentions_anything(content) == TRUE

\* any(term in content for term in ['bitcoin', 'btc', 'crypto'])
mentions_bitcoin(content) ==
    \E term \in {"bitcoin", "btc", "crypto"} : Contains(content, Chars(term))

\* title = title_elem.text or ""
title_of(item) == IF Truthy(item.title) THEN item.title ELSE Str(<<>>)

\* description = desc_elem.text if desc_elem is not None else ""
description_of(item) ==
    IF item.description.kind = "absent" THEN Str(<<>>) ELSE item.description

\* content = f"{title} {description}".lower()
content_of(item) ==
    Lower(Format(title_of(item)) \o <<" ">> \o Format(description_of(item)))

\* the test of the loop body: the item has a title element and its content mentions a term
kept(item) == item.title.kind # "absent" /\ mentions_bitcoin(content_of(item))

\* the dict appended for a kept item (published_date and collected_at are not modelled)
rss_tweet(item) ==
    [text |-> title_of(item), description |-> description_of(item), source |-> "rss_feed"]

\* the items of one source that end in tweets_data: of items[:max_tweets//2], those kept
source_tweets(feed) ==
    LET items == SubSeq(feed.items, 1, Min({Len(feed.items), max_tweets \div 2}))
        Keep(item) == kept(item)
        chosen == SelectSeq(items, Keep)
    IN  [i \in 1..Len(chosen) |-> rss_tweet(chosen[i])]

RECURSIVE rss_loop(_, _, _)
\* the loop over rss_sources from source i on, tweets_data holding the items collected so
\* far: an exception of a source is logged and the loop continues with the next source
rss_loop(feeds, i, tweets_data) ==
    IF i > Len(rss_sources) THEN tweets_data
    ELSE IF feeds[i].status = "ok"
         THEN rss_loop(feeds, i + 1, tweets_data \o source_tweets(feeds[i]))
         ELSE rss_loop(feeds, i + 1, tweets_data)

\* collect_bitcoin_tweets_rss(), feeds[i] being the answer of rss_sources[i]
collect_bitcoin_tweets_rss(feeds) == rss_loop(feeds, 1, <<>>)

\* the requests collect_bitcoin_tweets_rss makes: one per source, whatever the others
\* answered
rss_requests(feeds) == [i \in 1..Len(rss_sources) |-> rss_sources[i]]

\* the number of news items collect_bitcoin_news_alternative reads (data['Data'][:15])
max_news == 15

\* what the news API answers: the request fails, or the JSON document holds these items
\* under 'Data' (NoData: the document has no 'Data' key)
NewsFails == [status |-> "fetch_fails", items |-> <<>>]
NoData == [status |-> "no_data", items |-> <<>>]
News(items) == [status |-> "ok", items |-> items]

\* an item of the news API: its title and body (Absent without the key, None for null)
NewsItem(title, body) == [title |-> title, body |-> body]

\* item.get(key, ''): the default only for a missing key
get_or_empty(v) == IF v.kind = "absent" THEN Str(<<>>) ELSE v

\* item.get('body', '')[:400] raises TypeError for a null body
BodyRaises(item) == item.body.kind = "none"

\* the dict appended for a news item (published_date and collected_at are not modelled)
news_tweet(item) ==
    [text |-> get_or_empty(item.title),
     description |-> Str(SubSeq(get_or_empty(item.body).s, 1,
                                Min({Len(get_or_empty(item.body).s), 400}))),
     source |-> "crypto_news"]

\* collect_bitcoin_news_alternative(): any exception is logged and the result is []
collect_bitcoin_news_alternative(news) ==
    LET items == SubSeq(news.items, 1, Min({Len(news.items), max_news}))
    IN  IF news.status # "ok" THEN <<>>
        ELSE IF \E i \in 1..Len(items) : BodyRaises(items[i]) THEN <<>>
        ELSE [i \in 1..Len(items) |-> news_tweet(items[i])]

----------------------------------------------------------------------------
(* CryptoPriceCollector, ReportGenerator, S3Manager and run_crypto_etl_pipeline *)

\* dict.get(key, default)
Get(d, key, default) == IF key \in DOMAIN d THEN d[key] ELSE default

\* what the price API answers: the request fails with a message, or the JSON document
\* holds this 'usd' value for bitcoin (Absent when the document has no such entry, None
\* for null, else dollars)
PriceRequestFails(message) == [status |-> "request_fails", message |-> message, usd |-> Absent]
Quote(usd) == [status |-> "ok", message |-> "", usd |-> usd]

\* a whole number of dollars
Dollars(n) == [kind |-> "number", s |-> <<>>, n |-> n]

\* a get_bitcoin_price that answers a price of 0 when the request fails
get_bitcoin_price_default(answer) ==
    Returned([price_usd |-> IF answer.usd.kind = "number" THEN answer.usd.n ELSE 0])

\* get_bitcoin_price(): a RequestException is wrapped into an Exception that quotes it; a
\* null price makes the log line's ':,.2f' raise TypeError, which is raised again; a
\* document without the entry gives the default 0
get_bitcoin_price(answer) ==
    CASE answer.status = "request_fails" ->
             Raised("Falha na coleta de precos: " \o answer.message)
      [] answer.usd.kind = "none" ->
             Raised("unsupported format string passed to NoneType.__format__")
      [] answer.usd.kind = "absent" -> Returned([price_usd |-> 0])
      [] OTHER -> Returned([price_usd |-> answer.usd.n])

RECURSIVE SumPolarity(_)
\* sum(r.get('polarity', 0) for r in results)
SumPolarity(results) ==
    IF results = <<>> THEN 0
    ELSE Get(Head(results), "polarity", 0) + SumPolarity(Tail(results))

\* a mean kept exact: the sum (in millionths) and the count it is divided by
Mean(results) == [sum |-> SumPolarity(results), count |-> Len(results)]

\* the path of the file a report is saved to (the timestamp in its name is not modelled)
ReportPath == "data/reports/crypto_sentinel_report.csv"

\* tweet.get('text', '')[:500] raises TypeError for a text that is None
TweetTextRaises(tweet) == Get(tweet, "text", Str(<<>>)).kind = "none"

\* the row of the report for the pair at index i (from 0); the price columns other than
\* btc_price_usd and the row's timestamp are not modelled
report_row(i, price_data, sentiment, tweet) ==
    [btc_price_usd |-> Get(price_data, "price_usd", 0),
     tweet_index |-> i,
     tweet_text |-> LET text == Get(tweet, "text", Str(<<>>)).s
                    IN  SubSeq(text, 1, Min({Len(text), 500})),
     tweet_source |-> Get(tweet, "source", "unknown"),
     sentiment_polarity |-> Get(sentiment, "polarity", 0),
     sentiment_subjectivity |-> Get(sentiment, "subjectivity", 0),
     sentiment_label |-> Get(sentiment, "sentiment_label", "Neutro"),
     sentiment_confidence |-> Get(sentiment, "confidence", "Baixa"),
     analysis_method |-> Get(sentiment, "analysis_method", "standard"),
     crypto_matches |-> Get(sentiment, "crypto_matches", 0),
     crypto_terms_found |-> Get(sentiment, "crypto_terms_found", <<>>),
     crypto_score |-> Get(sentiment, "crypto_score", 0),
     emoji_score |-> Get(sentiment, "emoji_score", 0)]

\* the summary row: the mean polarity of the data rows and, in its text, their number and
\* the shares of rows above 0.1 and below -0.1
summary_row(price_data, rows) ==
    [btc_price_usd |-> Get(price_data, "price_usd", 0),
     sentiment_polarity |->
         [sum |-> SumPolarity([i \in 1..Len(rows) |->
                                  [polarity |-> rows[i].sentiment_polarity]]),
          count |-> Len(rows)],
     posts |-> Len(rows),
     positive |-> Cardinality({i \in 1..Len(rows) : rows[i].sentiment_polarity > 100000}),
     negative |-> Cardinality({i \in 1..Len(rows) : rows[i].sentiment_polarity < -100000}),
     sentiment_label |-> "RESUMO"]

\* a report that gets its summary row always
with_summary_always(price_data, rows) == Append(rows, summary_row(price_data, rows))

\* if not df.empty: the summary row is appended to the data rows
with_summary(price_data, rows) ==
    IF rows # <<>> THEN Append(rows, summary_row(price_data, rows)) ELSE rows

\* generate_comprehensive_report(price_data, sentiment_results, tweets_data) when the
\* directory and the file can be written: the rows of the file saved at the returned path,
\* one per pair of zip(sentiment_results, tweets_data), then the summary row
generate_comprehensive_report(price_data, sentiment_results, tweets_data) ==
    LET n == Min({Len(sentiment_results), Len(tweets_data)})
    IN  IF \E i \in 1..n : TweetTextRaises(tweets_data[i])
        THEN [raised |-> TRUE, value |-> "'NoneType' object is not subscriptable",
              file |-> Nothing, written |-> FALSE]
        ELSE [raised |-> FALSE, value |-> ReportPath,
              file |-> with_summary(price_data,
                                    [i \in 1..n |-> report_row(i - 1, price_data,
                                                               sentiment_results[i],
                                                               tweets_data[i])]),
              written |-> TRUE]

\* the result of the pipeline when an exception reaches its outer except clause
pipeline_error(message) == [success |-> FALSE, error |-> message]

\* what the S3 step meets: the module s3_utils cannot be imported (S3_AVAILABLE is
\* False), S3Manager() raises, upload_report raises, upload_report returns success False,
\* or the file is uploaded
S3Outcomes == {"unavailable", "init_raises", "upload_raises", "upload_false", "uploaded"}

\* the value upload_report returns
upload_info == [success |-> TRUE, s3_url |-> "s3://crypto-sentinel-reports/reports/daily/report.csv"]
upload_refused == [success |-> FALSE, error |-> "AccessDenied"]

\* an S3 error that is taken for the pipeline's error
s3_error_fatal(execution_results, message) == pipeline_error(message)

\* the except clause of the S3 step: the error becomes the s3_upload entry
s3_error(execution_results, message) ==
    [s3_upload |-> [success |-> FALSE, error |-> message]] @@ execution_results

\* step 6: the upload when it is asked for and s3_utils is there; the result of
\* upload_report, or the error, is stored under 's3_upload'
s3_step(upload_to_s3, s3, execution_results) ==
    IF upload_to_s3 /\ s3 # "unavailable"
    THEN CASE s3 = "init_raises" ->
                  s3_error(execution_results, "Bucket crypto-sentinel-reports nao existe")
           [] s3 = "upload_raises" ->
                  s3_error(execution_results, "Arquivo nao encontrado")
           [] s3 = "upload_false" -> [s3_upload |-> upload_refused] @@ execution_results
           [] OTHER -> [s3_upload |-> upload_info] @@ execution_results
    ELSE execution_results

\* an S3 step that is entered whether or not the upload was asked for
s3_calls_unasked(upload_to_s3, s3) ==
    IF s3 # "unavailable"
    THEN IF s3 = "init_raises" THEN <<"S3Manager">> ELSE <<"S3Manager", "upload_report">>
    ELSE <<>>

\* the calls of the S3 step
s3_calls(upload_to_s3, s3) ==
    IF upload_to_s3 /\ s3 # "unavailable"
    THEN IF s3 = "init_raises" THEN <<"S3Manager">> ELSE <<"S3Manager", "upload_report">>
    ELSE <<>>

\* the alternative source is used also at 5 items
needs_alternative_upto_5(tweets_data) == Len(tweets_data) <= 5

\* if len(tweets_data) < 5
needs_alternative(tweets_data) == Len(tweets_data) < 5

\* no report file
NoReport == [written |-> FALSE, file |-> <<>>]

\* what a run leaves behind besides its result: the calls made in order, the items of the
\* two collections, and the report file
Run(result, calls, rss, alt, report) ==
    [result |-> result, calls |-> calls, rss |-> rss, alt |-> alt, report |-> report]

\* steps 3 to 6 of the pipeline on the collected items, sentiment being the outcome of
\* SentimentAnalyzer.analyze_batch_sentiment on their texts
pipeline_tail(upload_to_s3, env, price_data, rss, alt, calls, sentiment) ==
    LET tweets_data == rss \o alt
        calls3 == Append(calls, "analyze_batch_sentiment")
        calls4 == Append(calls3, "generate_comprehensive_report")
        report == generate_comprehensive_report(price_data, sentiment.value, tweets_data)
        execution_results ==
            [success |-> TRUE,
             btc_price |-> Get(price_data, "price_usd", 0),
             total_texts_analyzed |-> Len(tweets_data),
             avg_sentiment |-> Mean(sentiment.value),
             report_path |-> report.value]
    IN  IF sentiment.raised
        THEN Run(pipeline_error("object of type 'NoneType' has no len()"), calls3,
                 rss, alt, NoReport)
        ELSE IF env.report = "fails"
        THEN Run(pipeline_error("No space left on device"), calls4, rss, alt, NoReport)
        ELSE IF report.raised
        THEN Run(pipeline_error(report.value), calls4, rss, alt, NoReport)
        ELSE Run(s3_step(upload_to_s3, env.s3, execution_results),
                 calls4 \o s3_calls(upload_to_s3, env.s3), rss, alt,
                 [written |-> TRUE, file |-> report.file])

\* the text_steps of a text, looked up in the scored texts
steps_for(scored, text) == (CHOOSE it \in scored : it.text = text).ts

\* what TextBlob answers in a run for the texts of the collected items, steps[i] being the
\* text_steps of texts[i]
run_blobs(env, texts, steps) ==
    [i \in 1..Len(texts) |->
        IF Truthy(texts[i]) /\ IsStr(texts[i])
        THEN TextBlobOf(env.oracle, steps[i].pre.cleaned)
        ELSE NotCalled]

\* a run that goes on without any text
no_texts_never(tweets_data) == FALSE

\* if not tweets_data: the two collections together gave no item
no_texts(tweets_data) == tweets_data = <<>>

\* steps 2 to 6 of the pipeline, price_data being the collected price and scored the texts
\* a run can collect, each with its text_steps
pipeline_collect(upload_to_s3, env, price_data, scored) ==
    LET rss == collect_bitcoin_tweets_rss(env.feeds)
        asked == needs_alternative(rss)
        alt == IF asked THEN collect_bitcoin_news_alternative(env.news) ELSE <<>>
        tweets_data == rss \o alt
        calls == <<"get_bitcoin_price", "collect_bitcoin_tweets_rss">>
                 \o (IF asked THEN <<"collect_bitcoin_news_alternative">> ELSE <<>>)
        texts == [i \in 1..Len(tweets_data) |-> Get(tweets_data[i], "text", Str(<<>>))]
        steps == [i \in 1..Len(texts) |-> steps_for(scored, texts[i])]
        sentiment == wrapper_batch_result(texts, run_blobs(env, texts, steps), steps)
    IN  IF no_texts(tweets_data)
        THEN Run(pipeline_error("Nenhum dado de texto coletado"), calls, rss, alt, NoReport)
        ELSE pipeline_tail(upload_to_s3, env, price_data, rss, alt, calls, sentiment)

\* run_crypto_etl_pipeline(upload_to_s3) in the environment env: every exception of the
\* steps reaches the outer except clause and becomes the result
run_crypto_etl_pipeline(upload_to_s3, env, scored) ==
    LET price == get_bitcoin_price(env.price)
    IN  IF price.raised
        THEN Run(pipeline_error(price.value), <<"get_bitcoin_price">>, <<>>, <<>>, NoReport)
        ELSE pipeline_collect(upload_to_s3, env, price.value, scored)

----------------------------------------------------------------------------
(* Calls of the collectors, of the report generator and of the pipeline *)

\* the items the feeds of the model are made of
RssItems ==
    {RssItem(Str(Chars("Bitcoin price update")), Str(Chars("Bitcoin news"))),
     RssItem(Str(Chars("Apple stock rises")), Str(Chars("Regular stock market news"))),
     RssItem(Str(Chars("Markets today")), Str(Chars("BTC drops"))),
     RssItem(Absent, Str(Chars("crypto"))),
     RssItem(PyNone, Str(Chars("Crypto market analysis"))),
     RssItem(Str(Chars("CRYPTO rally")), PyNone),
     RssItem(Str(Chars("bit")), Str(Chars("coin")))}

\* a feed with one item more than a source may give
BigFeed ==
    Parsed([i \in 1..(max_tweets \div 2 + 1) |->
               RssItem(Str(Chars("Bitcoin price update")), Str(Chars("Bitcoin news")))])

\* the answers of the first source
Feeds ==
    {FetchFails, ParseFails, BigFeed}
        \cup {Parsed(items) : items \in SeqsUpTo(RssItems, MaxItems)}

\* the answers of the second source: a failure, no item or one item
SecondFeeds ==
    {FetchFails, ParseFails} \cup {Parsed(items) : items \in SeqsUpTo(RssItems, 1)}

\* the items the answers of the news API are made of
NewsItems ==
    {NewsItem(Str(Chars("Bitcoin to the moon")), Str(Chars("HODL"))),
     NewsItem(Str(Chars("Market crash, rekt")), Absent),
     NewsItem(Absent, Str(Chars("no title"))),
     NewsItem(PyNone, Str(Chars("null title"))),
     NewsItem(Str(Chars("ETF approved")), PyNone)}

\* an answer with one item more than collect_bitcoin_news_alternative reads
LongNews ==
    News([i \in 1..(max_news + 1) |->
             NewsItem(Str(Chars("Bitcoin to the moon")), Str(Chars("HODL")))])

\* the answers of the news API
NewsAnswers ==
    {NewsFails, NoData, LongNews}
        \cup {News(items) : items \in SeqsUpTo(NewsItems, MaxItems)}

\* collect_bitcoin_tweets_rss()
CallCollectRss ==
    /\ op = "idle"
    /\ \E f1 \in Feeds, f2 \in SecondFeeds :
          /\ op' = "collect_bitcoin_tweets_rss"
          /\ arg' = Nothing
          /\ engine' = <<f1, f2>>
          /\ ret' = Returned(collect_bitcoin_tweets_rss(<<f1, f2>>))
          /\ internal' = rss_requests(<<f1, f2>>)
    /\ UNCHANGED rest

\* collect_bitcoin_news_alternative()
CallCollectNews ==
    /\ op = "idle"
    /\ \E news \in NewsAnswers :
          /\ op' = "collect_bitcoin_news_alternative"
          /\ arg' = Nothing
          /\ engine' = news
          /\ ret' = Returned(collect_bitcoin_news_alternative(news))
          /\ internal' = Nothing
    /\ UNCHANGED rest

\* calls of the collectors
NextCollect == CallCollectRss \/ CallCollectNews \/ Return

SpecCollect == Init /\ [][NextCollect]_vars

\* the sentiment results handed to the report generator: records of the wrapper and dicts
\* with keys missing
ReportSentiments ==
    {[polarity |-> 600000, subjectivity |-> 500000, sentiment_label |-> "Positivo",
      confidence |-> "Alta"],
     [polarity |-> -540000, sentiment_label |-> "Negativo"],
     [sentiment_label |-> "Neutro", confidence |-> "Baixa"]}

\* a text longer than the 500 code points a row keeps
LongTweet == [i \in 1..501 |-> "b"]

\* the items handed to the report generator
ReportTweets ==
    {[text |-> Str(Chars("Bitcoin up")), source |-> "rss_feed"],
     [text |-> Str(LongTweet), source |-> "crypto_news"],
     [text |-> Str(Chars("no source"))],
     [text |-> PyNone, source |-> "crypto_news"]}

\* generate_comprehensive_report(price_data, sentiment_results, tweets_data)
CallReport ==
    /\ op = "idle"
    /\ \E sentiment_results \in SeqsUpTo(ReportSentiments, MaxRows),
          tweets_data \in SeqsUpTo(ReportTweets, MaxRows) :
          LET report == generate_comprehensive_report([price_usd |-> 50000],
                                                      sentiment_results, tweets_data)
          IN  /\ op' = "generate_comprehensive_report"
              /\ arg' = [price_data |-> [price_usd |-> 50000],
                         sentiment_results |-> sentiment_results,
                         tweets_data |-> tweets_data]
              /\ engine' = Nothing
              /\ ret' = [raised |-> report.raised, value |-> report.value]
              /\ internal' = [written |-> report.written, file |-> report.file]
    /\ UNCHANGED rest

\* calls of the report generator
NextReport == CallReport \/ Return

SpecReport == Init /\ [][NextReport]_vars

\* the answers of the price API
PriceAnswers ==
    {PriceRequestFails("API Error"), Quote(PyNone), Quote(Absent), Quote(Dollars(68234))}

\* the answers of a source in a pipeline run: feeds of which 0, 1, 4 and 10 items are kept
PipelineFeeds ==
    {FetchFails,
     Parsed(<<RssItem(Str(Chars("Apple stock rises")), Str(Chars("Regular stock market news"))),
              RssItem(Str(Chars("Markets today")), Str(Chars("BTC drops")))>>),
     Parsed([i \in 1..4 |-> RssItem(Str(Chars("CRYPTO rally")), PyNone)]),
     BigFeed}

\* the answers of the news API in a pipeline run
PipelineNews ==
    {NewsFails,
     News(<<NewsItem(Str(Chars("Market crash, rekt")), Absent),
            NewsItem(Str(Chars("Bitcoin to the moon")), Str(Chars("HODL")))>>),
     News(<<NewsItem(PyNone, Str(Chars("null title")))>>),
     News(<<NewsItem(Str(ScenarioText), Absent)>>),
     LongNews}

\* the environments of a pipeline run: the answers of the price API, of the two feeds and
\* of the news API, the engine, whether the report can be written, and the S3 step
PipelineEnvs ==
    [price : PriceAnswers,
     feeds : {<<f1, f2>> : f1 \in PipelineFeeds, f2 \in PipelineFeeds},
     news : PipelineNews,
     oracle : 0..MaxOracle,
     report : {"written", "fails"},
     s3 : S3Outcomes]

\* the texts of the items a pipeline run can collect
PipelineTexts ==
    {title_of(item) : item \in UNION {Range(f.items) : f \in PipelineFeeds}}
        \cup {get_or_empty(item.title) : item \in UNION {Range(n.items) : n \in PipelineNews}}

\* each of them with its text_steps
PipelineScored == {[text |-> t, ts |-> text_steps(t)] : t \in PipelineTexts}

\* a run of the pipeline in an environment
PipelineOn(upload_to_s3, env, scored) ==
    LET run == run_crypto_etl_pipeline(upload_to_s3, env, scored)
    IN  /\ op' = "run_crypto_etl_pipeline"
        /\ arg' = upload_to_s3
        /\ engine' = env
        /\ ret' = Returned(run.result)
        /\ internal' = run

\* run_crypto_etl_pipeline(upload_to_s3)
CallPipeline ==
    /\ op = "idle"
    /\ \E scored \in {PipelineScored} :
          \E upload_to_s3 \in BOOLEAN, env \in PipelineEnvs :
              PipelineOn(upload_to_s3, env, scored)
    /\ UNCHANGED rest

\* calls of the pipeline
NextPipeline == CallPipeline \/ Return

SpecPipeline == Init /\ [][NextPipeline]_vars

----------------------------------------------------------------------------
(* The DAG crypto_sentinel_etl: its tasks, their callables and one run of it *)

\* the task ids
Tasks ==
    {"check_dependencies", "execute_pipeline", "validate_results", "generate_summary",
     "cleanup_old_files"}

\* the direct upstream tasks of a task:
\* check_dependencies >> execute_pipeline >> validate_results >> generate_summary and
\* validate_results >> cleanup_old_files
upstream(task) ==
    CASE task = "check_dependencies" -> {}
      [] task = "execute_pipeline" -> {"check_dependencies"}
      [] task = "validate_results" -> {"execute_pipeline"}
      [] task = "generate_summary" -> {"validate_results"}
      [] task = "cleanup_old_files" -> {"validate_results"}

\* the trigger rule a task has when none is given
default_trigger_rule == "all_success"

\* a cleanup task with the rule of the other tasks
trigger_rule_all_success == "all_success"

\* the trigger rule of task_cleanup
cleanup_trigger_rule == "all_done"

\* the trigger rule of a task
trigger_rule(task) ==
    IF task = "cleanup_old_files" THEN cleanup_trigger_rule ELSE default_trigger_rule

\* 'retries' of default_args
retries == 2

\* the states in which a task instance is finished
Finished == {"success", "failed", "upstream_failed"}

\* a run in which no task has been scheduled yet; log holds the validations that
\* validate_results logs, pipeline the 'success' of what run_crypto_etl_pipeline returned
\* in each try of execute_pipeline
NewRun ==
    [state |-> [t \in Tasks |-> "none"],
     try_number |-> [t \in Tasks |-> 0],
     xcom |-> [t \in Tasks |-> Nothing],
     log |-> <<>>,
     pipeline |-> <<>>]

\* the task can be started: it waits for its first try or for a retry, and its trigger
\* rule is met (all_success: every upstream task succeeded; all_done: every upstream task
\* is finished)
Runnable(run, task) ==
    /\ run.state[task] \in {"none", "up_for_retry"}
    /\ IF trigger_rule(task) = "all_done"
       THEN \A u \in upstream(task) : run.state[u] \in Finished
       ELSE \A u \in upstream(task) : run.state[u] = "success"

\* the task will never be started: its rule is all_success and an upstream task has
\* failed or was not run
Blocked(run, task) ==
    /\ run.state[task] = "none"
    /\ trigger_rule(task) = "all_success"
    /\ \E u \in upstream(task) : run.state[u] \in {"failed", "upstream_failed"}

\* the run after a try of the task whose callable returned or raised: a returned value is
\* pushed to XCom and the task succeeds; after an exception the task is retried while it
\* has retries left, and fails after the last one
after_try(run, task, outcome) ==
    LET n == run.try_number[task] + 1
    IN  [run EXCEPT
            !.try_number[task] = n,
            !.state[task] = IF ~outcome.raised THEN "success"
                            ELSE IF n <= retries THEN "up_for_retry"
                            ELSE "failed",
            !.xcom[task] = IF outcome.raised THEN Nothing ELSE outcome.value]

\* check_dependencies(): the imports and test_s3_connection() succeed, or an exception is
\* raised
check_dependencies(dependencies_ok) ==
    IF dependencies_ok THEN Returned([status |-> "success", message |-> "Dependencies OK"])
    ELSE Raised("Falha na conexao com S3")

\* a callable that hands on whatever the pipeline returned
execute_crypto_pipeline_hands_on(results) == Returned(results)

\* execute_crypto_pipeline(): results being what run_crypto_etl_pipeline(upload_to_s3=True)
\* returned, an unsuccessful run is turned into an exception and a successful one is
\* returned for XCom
execute_crypto_pipeline(results) ==
    IF ~results.success
    THEN Raised("Pipeline execution failed: " \o results.error)
    ELSE Returned(results)

\* a line of the validations: a warning starts with the warning sign, the others with the
\* check mark
Passed(message) == [warning |-> FALSE, message |-> message]
Warning(message) == [warning |-> TRUE, message |-> message]

\* -1 <= avg_sentiment <= 1, the mean being sum / count in millionths
InRange(avg_sentiment) ==
    /\ -1000000 * avg_sentiment.count <= avg_sentiment.sum
    /\ avg_sentiment.sum <= 1000000 * avg_sentiment.count

\* results.get('s3_url'): the key of the result itself
s3_url_of(results) == Get(results, "s3_url", "")

\* the four validations of validate_results, in order
validations_of(results) ==
    <<IF Get(results, "btc_price", 0) > 1000
      THEN Passed("Preco Bitcoin valido") ELSE Warning("Preco Bitcoin suspeito"),
      IF Get(results, "total_texts_analyzed", 0) >= 5
      THEN Passed("Quantidade adequada de textos") ELSE Warning("Poucos textos analisados"),
      IF InRange(Get(results, "avg_sentiment", [sum |-> 0, count |-> 1]))
      THEN Passed("Sentimento dentro do range esperado")
      ELSE Warning("Sentimento fora do range"),
      IF s3_url_of(results) # ""
      THEN Passed("Upload S3 realizado") ELSE Warning("Upload S3 nao confirmado")>>

\* a validation that counts no warning
warnings_of_none(validations) == <<>>

\* warnings = [v for v in validations if v.startswith(warning sign)]
warnings_of(validations) == SelectSeq(validations, LAMBDA v : v.warning)

\* validate_results(): results being the XCom value of execute_pipeline; more than two
\* warnings raise an exception
validate_results(results) ==
    IF results = Nothing THEN Raised("Nenhum resultado recebido do pipeline")
    ELSE IF Len(warnings_of(validations_of(results))) > 2
         THEN Raised("Muitas validacoes falharam")
         ELSE Returned([validations |-> validations_of(results),
                        warnings |-> Len(warnings_of(validations_of(results)))])

\* generate_summary_email(): the subject's status and the S3 line of the message
generate_summary_email(results, validation) ==
    Returned([status |-> IF validation.warnings = 0 THEN "Sucesso"
                         ELSE IF validation.warnings <= 2 THEN "Sucesso com avisos"
                         ELSE "Falha",
              s3 |-> IF s3_url_of(results) # "" THEN "Enviado" ELSE "Falha"])

\* cleanup_old_files(): an exception while removing files is caught and reported in the
\* returned status
cleanup_old_files(disk_ok) ==
    IF disk_ok THEN Returned([status |-> "cleanup_completed"])
    ELSE Returned([status |-> "cleanup_failed", error |-> "Permission denied"])

\* the state before a DAG run: the analyzer as constructed, no call in progress
InitDag ==
    /\ crypto_terms = init_crypto_dictionaries
    /\ positive_emojis = init_positive_emojis
    /\ negative_emojis = init_negative_emojis
    /\ op = "idle"
    /\ arg = Nothing
    /\ engine = Nothing
    /\ ret = Nothing
    /\ internal = Nothing
    /\ history = Nothing
    /\ dag_run = NewRun

\* what a step of a DAG run leaves alone
outside_run == <<analyzer, op, arg, engine, ret, internal, history>>

\* a try of check_dependencies
RunCheckDependencies ==
    /\ Runnable(dag_run, "check_dependencies")
    /\ \E dependencies_ok \in BOOLEAN :
          dag_run' = after_try(dag_run, "check_dependencies",
                               check_dependencies(dependencies_ok))
    /\ UNCHANGED outside_run

\* the environments of the pipeline in a DAG run: any answer of the price API and of the
\* first feed, a second feed that fails, a news API that fails or gives 2 items, any
\* outcome of the report and of the S3 step
DagEnvs ==
    {env \in PipelineEnvs :
        /\ env.oracle = 0
        /\ env.feeds[2] = FetchFails
        /\ env.news.status = "fetch_fails" \/ Len(env.news.items) = 2}

\* a try of execute_pipeline in one of the environments
ExecuteOn(scored) ==
    \E env \in DagEnvs :
        LET results == run_crypto_etl_pipeline(TRUE, env, scored).result
        IN  dag_run' = [after_try(dag_run, "execute_pipeline",
                                  execute_crypto_pipeline(results))
                           EXCEPT !.pipeline = Append(@, results.success)]

\* a try of execute_pipeline
RunExecutePipeline ==
    /\ Runnable(dag_run, "execute_pipeline")
    /\ \E scored \in {PipelineScored} : ExecuteOn(scored)
    /\ UNCHANGED outside_run

\* a try of validate_results: it logs its validations, then returns or raises
RunValidateResults ==
    /\ Runnable(dag_run, "validate_results")
    /\ LET results == dag_run.xcom["execute_pipeline"]
           logged == IF results = Nothing THEN <<>> ELSE validations_of(results)
       IN  dag_run' = [after_try(dag_run, "validate_results", validate_results(results))
                          EXCEPT !.log = logged]
    /\ UNCHANGED outside_run

\* a try of generate_summary
RunGenerateSummary ==
    /\ Runnable(dag_run, "generate_summary")
    /\ dag_run' = after_try(dag_run, "generate_summary",
                            generate_summary_email(dag_run.xcom["execute_pipeline"],
                                                   dag_run.xcom["validate_results"]))
    /\ UNCHANGED outside_run

\* a try of cleanup_old_files
RunCleanup ==
    /\ Runnable(dag_run, "cleanup_old_files")
    /\ \E disk_ok \in BOOLEAN :
          dag_run' = after_try(dag_run, "cleanup_old_files", cleanup_old_files(disk_ok))
    /\ UNCHANGED outside_run

\* the scheduler marks a task that will never be started
MarkUpstreamFailed ==
    /\ \E task \in Tasks :
          /\ Blocked(dag_run, task)
          /\ dag_run' = [dag_run EXCEPT !.state[task] = "upstream_failed"]
    /\ UNCHANGED outside_run

\* the steps of a DAG run
NextDag ==
    \/ RunCheckDependencies
    \/ RunExecutePipeline
    \/ RunValidateResults
    \/ RunGenerateSummary
    \/ RunCleanup
    \/ MarkUpstreamFailed

\* a DAG run; the scheduler starts cleanup_old_files when its trigger rule stays met
SpecDag == InitDag /\ [][NextDag]_vars /\ WF_vars(RunCleanup)

----------------------------------------------------------------------------
(* Calls of validate_results on XCom values *)

\* a dict with the key set to one of the values, or without the key
Entries(key, values) == {key :> v : v \in values} \cup {Nothing}

\* the values of the keys validate_results reads: prices and numbers of texts on both
\* sides of the thresholds, means on and just beyond the ends of [-1, 1], an S3 URL
ResultPrices == {0, 1000, 1001, 68234}
ResultTexts == {0, 4, 5, 26}
ResultMeans ==
    {[sum |-> -1000001, count |-> 1], [sum |-> -1000000, count |-> 1],
     [sum |-> 700000, count |-> 3], [sum |-> 2000000, count |-> 2],
     [sum |-> 2000001, count |-> 2]}
ResultUrls == {"", upload_info.s3_url}

\* what xcom_pull(task_ids='execute_pipeline') can hand to validate_results: nothing, or
\* a result with any of the four keys present or missing
XComValues ==
    {Nothing} \cup
    {[success |-> TRUE] @@ price @@ texts @@ mean @@ url :
        price \in Entries("btc_price", ResultPrices),
        texts \in Entries("total_texts_analyzed", ResultTexts),
        mean \in Entries("avg_sentiment", ResultMeans),
        url \in Entries("s3_url", ResultUrls)}

\* validate_results() on an XCom value: internal holds the validations it logged
CallValidate ==
    /\ op = "idle"
    /\ \E results \in XComValues :
            /\ op' = "validate_results"
            /\ arg' = results
            /\ engine' = Nothing
            /\ ret' = validate_results(results)
            /\ internal' = IF results = Nothing THEN <<>> ELSE validations_of(results)
    /\ UNCHANGED rest

\* calls of validate_results
NextValidate == CallValidate \/ Return

SpecValidate == Init /\ [][NextValidate]_vars

----------------------------------------------------------------------------
(* The claims *)

EnhancedCall == op = "analyze_enhanced_sentiment"

BatchCall == op = "analyze_batch_sentiment"

WrapperBatchCall == op = "SentimentAnalyzer.analyze_batch_sentiment"

\* C1: every call of analyze_batch_sentiment returns, whatever the list holds; the record
\* of an item is the error-fallback record exactly when that item is empty, not a string or
\* its scoring failed, and every other item has its normal record
C1_BatchFaultIsolation ==
    BatchCall =>
        /\ ~ret.raised
        /\ Len(ret.value) = Len(arg)
        /\ \A i \in 1..Len(arg) :
              (ret.value[i].analysis_method = "error_fallback")
                  <=> (~IsStr(arg[i]) \/ arg[i].s = <<>> \/ engine[i].raises)

\* the first 100 code points of a text followed by "...", or the text when it has no more
\* than 100
Derived(text) ==
    IF Len(text.s) <= 100 THEN text
    ELSE Str([k \in 1..103 |-> IF k <= 100 THEN text.s[k] ELSE "."])

\* C2: for a list of texts, analyze_batch_sentiment and the wrapper of crypto_etl return as
\* many records as texts, the i-th (from 0) with text_index = i and the original_text derived
\* from texts[i]
C2_BatchOrderPreserved ==
    ((BatchCall \/ WrapperBatchCall) /\ \A i \in 1..Len(arg) : IsStr(arg[i])) =>
        /\ ~ret.raised
        /\ Len(ret.value) = Len(arg)
        /\ \A i \in 1..Len(arg) :
              /\ ret.value[i].text_index = i - 1
              /\ ret.value[i].original_text = Derived(arg[i])

\* the wrapper returned two records, the second for a text of more than 100 code points
\* that differs from the first
C2_Witness ==
    /\ WrapperBatchCall
    /\ Len(arg) = 2
    /\ IsStr(arg[1]) /\ IsStr(arg[2])
    /\ Len(arg[2].s) > 100
    /\ arg[1] # arg[2]
    /\ ~ret.raised
    /\ ret.value[2].text_index = 1
    /\ Len(ret.value[2].original_text.s) = 103

\* C3: in every record analyze_enhanced_sentiment returns, the label is 'Positivo' exactly
\* when the polarity field is above 0.1, 'Negativo' exactly when it is below -0.1 and
\* 'Neutro' otherwise
C3_LabelOfRecordPolarity ==
    EnhancedCall =>
        /\ ret.value.sentiment_label \in {"Positivo", "Negativo", "Neutro"}
        /\ (ret.value.sentiment_label = "Positivo") <=> (ret.value.polarity > 100000)
        /\ (ret.value.sentiment_label = "Negativo") <=> (ret.value.polarity < -100000)

\* C4: in every record analyze_enhanced_sentiment returns, the method is 'enhanced_crypto'
\* exactly when crypto_matches > 0, and a record without matches has one of the other two
\* methods and crypto_score 0
C4_MethodIffMatches ==
    EnhancedCall =>
        /\ ~ret.raised
        /\ (ret.value.analysis_method = "enhanced_crypto") <=> (ret.value.crypto_matches > 0)
        /\ ret.value.crypto_matches = 0 =>
              /\ ret.value.analysis_method \in {"textblob_standard", "error_fallback"}
              /\ ret.value.crypto_score = 0

\* a text without any lexicon term was scored by the generic engine alone, to a polarity
\* that is not 0
C4_Witness ==
    /\ EnhancedCall
    /\ IsStr(arg) /\ arg.s # <<>>
    /\ ~engine.raises
    /\ ret.value.crypto_matches = 0
    /\ ret.value.analysis_method = "textblob_standard"
    /\ ret.value.polarity # 0

\* the input is '', None or another value that is not a string
InvalidInput == ~IsStr(arg) \/ arg.s = <<>>

\* C5: for '', None, a value that is not a string, or when the generic engine raises,
\* analyze_enhanced_sentiment returns the whole fallback record; analyze_text_sentiment
\* returns label 'Neutro' and polarity 0 for '' and None
C5_FallbackRecord ==
    /\ (EnhancedCall /\ (InvalidInput \/ engine.raises)) =>
          /\ ~ret.raised
          /\ ret.value = [polarity |-> 0, subjectivity |-> 0, textblob_polarity |-> 0,
                          crypto_score |-> 0, emoji_score |-> 0, crypto_matches |-> 0,
                          crypto_terms_found |-> <<>>, sentiment_label |-> "Neutro",
                          confidence |-> "Baixa", analysis_method |-> "error_fallback"]
    /\ (op = "analyze_text_sentiment" /\ arg \in {Str(<<>>), PyNone}) =>
          /\ ~ret.raised
          /\ ret.value.sentiment_label = "Neutro"
          /\ ret.value.polarity = 0

\* the generic engine raised on a text that holds lexicon terms and an emoji
C5_Witness ==
    /\ EnhancedCall
    /\ IsStr(arg)
    /\ Contains(Lower(arg.s), Chars("hodl"))
    /\ Contains(arg.s, <<"U+1F680">>)
    /\ engine.raises
    /\ ret.value.analysis_method = "error_fallback"

TermsCall == op = "analyze_crypto_terms"

\* the places where sub occurs in s, overlapping ones included
Occ(s, sub) == {i \in 1..(Len(s) - Len(sub) + 1) : MatchAt(s, sub, i)}

\* the lexicon terms that occur in s
Present(s) == {e \in Range(crypto_terms) : Occ(s, Chars(e.term)) # {}}

\* the terms of the matches returned
Matched == {ret.value.matches[k].term : k \in 1..Len(ret.value.matches)}

\* a text that contains 'green candle', no lexicon term other than it and 'green', and
\* 'green' only at the start of a 'green candle', records the single match
\* ('green candle', 0.6)
C6_GreenCandleOnly ==
    TermsCall =>
        LET s == Lower(arg)
        IN  (/\ Occ(s, Chars("green candle")) # {}
             /\ \A e \in Present(s) : e.term \in {"green candle", "green"}
             /\ Occ(s, Chars("green")) \subseteq Occ(s, Chars("green candle")))
            => ret.value.matches = <<[term |-> "green candle", score |-> 600000]>>

\* every occurrence of the term t in s lies inside an occurrence of a longer lexicon term
OnlyInsideLonger(s, t) ==
    /\ Occ(s, Chars(t)) # {}
    /\ \A i \in Occ(s, Chars(t)) :
          \E e \in Present(s) :
              /\ Len(e.term) > Len(t)
              /\ \E j \in Occ(s, Chars(e.term)) : j <= i /\ i + Len(t) <= j + Len(e.term)

\* a lexicon term that occurs only inside occurrences of longer lexicon terms is not matched
C6_NestedTermNotMatched ==
    TermsCall =>
        \A e \in Present(Lower(arg)) : OnlyInsideLonger(Lower(arg), e.term) => e.term \notin Matched

\* C6: longest-match precedence: a text with 'green candle', no other lexicon term and no
\* 'green' outside 'green candle' records exactly the match ('green candle', 0.6); and a
\* lexicon term that occurs only inside an occurrence of a longer lexicon phrase is not
\* matched
C6_LongestMatchPrecedence == C6_GreenCandleOnly /\ C6_NestedTermNotMatched

\* C7: the occurrences that produced the matches of analyze_crypto_terms do not overlap:
\* every position of the text is consumed by at most one match, and every match consumed
\* some position
C7_SpansDisjoint ==
    TermsCall =>
        /\ Len(ret.value.spans) = Len(ret.value.matches)
        /\ \A k \in 1..Len(ret.value.spans) :
              /\ ret.value.spans[k] # {}
              /\ ret.value.spans[k] \subseteq 1..Len(arg)
              /\ \A j \in 1..(k - 1) : ret.value.spans[j] \cap ret.value.spans[k] = {}

\* 'green candle' and, from another place of the text, 'green' were both matched
C7_Witness ==
    /\ TermsCall
    /\ Len(ret.value.matches) >= 2
    /\ ret.value.matches[1].term = "green candle"
    /\ \E k \in 2..Len(ret.value.matches) : ret.value.matches[k].term = "green"

\* C8: for every record that is not the fallback, the unrounded final polarity is
\* 0.6*crypto_score + 0.3*generic polarity + 0.1*emoji_score when match_count > 0 and
\* 0.8*generic polarity + 0.2*emoji_score when match_count = 0, and the record's polarity
\* is that value rounded
C8_BlendingPolicy ==
    (EnhancedCall /\ ret.value.analysis_method # "error_fallback") =>
        /\ internal # Nothing
        /\ internal.textblob_polarity = engine.polarity
        /\ IF internal.crypto_analysis.match_count > 0
           THEN 10 * internal.final_polarity
                    = 6 * internal.crypto_analysis.crypto_score
                      + 3 * internal.textblob_polarity + 1 * internal.emoji_score
           ELSE 10 * internal.final_polarity
                    = 8 * internal.textblob_polarity + 2 * internal.emoji_score
        /\ ret.value.polarity = Round4(internal.final_polarity)

\* a text with lexicon terms and emojis was blended with a generic polarity that is not 0
C8_Witness ==
    /\ EnhancedCall
    /\ internal # Nothing
    /\ internal.crypto_analysis.match_count > 0
    /\ internal.crypto_analysis.crypto_score # 0
    /\ internal.textblob_polarity # 0
    /\ internal.emoji_score # 0
    /\ ret.value.polarity # 0

\* the point total of the claim
Points(match_count, generic_polarity, emoji_score) ==
    (CASE match_count >= 3 -> 3 [] match_count = 2 -> 2 [] match_count = 1 -> 1
       [] OTHER -> 0)
    + (CASE Abs(generic_polarity) > 500000 -> 2
         [] Abs(generic_polarity) <= 500000 /\ Abs(generic_polarity) > 200000 -> 1
         [] OTHER -> 0)
    + (CASE Abs(emoji_score) > 300000 -> 1 [] OTHER -> 0)

\* C9: calculate_confidence returns 'Alta' when the point total is at least 4, 'Media' when
\* it is 2 or 3, 'Baixa' when it is below 2
C9_ConfidenceBanding ==
    op = "calculate_confidence" =>
        LET P == Points(arg.crypto_matches, arg.textblob_polarity, arg.emoji_score)
        IN  /\ ~ret.raised
            /\ (P >= 4) => ret.value = "Alta"
            /\ (2 <= P /\ P < 4) => ret.value = "Media"
            /\ (P < 2) => ret.value = "Baixa"

\* two matches with the generic polarity exactly 0.5 and the emoji score exactly 0.3 gave
\* 'Media'
C9_Witness ==
    /\ op = "calculate_confidence"
    /\ arg.crypto_matches = 2
    /\ Abs(arg.textblob_polarity) = 500000
    /\ Abs(arg.emoji_score) = 300000
    /\ ret.value = "Media"

\* the scenario text was scored and the generic engine answered
ScenarioCall == EnhancedCall /\ arg = Str(ScenarioText) /\ ~engine.raises

\* the matches, the score and the label of the scenario
ScenarioMatches ==
    /\ ret.value.crypto_terms_found = <<"diamond hands", "moon", "hodl">>
    /\ internal.crypto_analysis.matches
           = <<[term |-> "diamond hands", score |-> 700000],
               [term |-> "moon", score |-> 900000],
               [term |-> "hodl", score |-> 600000]>>
    /\ ret.value.crypto_matches = 3
    /\ ret.value.crypto_score = 2200000
    /\ ret.value.sentiment_label = "Positivo"

\* C10: for 'Bitcoin to the moon! Diamond hands HODL', whatever polarity the generic engine
\* answers, the matches are diamond hands (0.7), moon (0.9) and hodl (0.6) without 'hold',
\* match_count is 3, crypto_score is 2.2 and the label is 'Positivo'; the confidence is
\* 'Alta' when the generic polarity is above 0.2 in absolute value and 'Media' otherwise
C10_Scenario ==
    ScenarioCall =>
        /\ ScenarioMatches
        /\ ret.value.confidence
               = IF Abs(engine.polarity) > 200000 THEN "Alta" ELSE "Media"

\* C10 as the spec states it: the confidence is 'Alta' whatever the generic polarity
C10_ScenarioAlwaysAlta ==
    ScenarioCall => (ScenarioMatches /\ ret.value.confidence = "Alta")

\* the scenario text was scored with a generic polarity of exactly 0.2, to 'Media'
C10_Witness ==
    /\ ScenarioCall
    /\ engine.polarity = 200000
    /\ ScenarioMatches
    /\ ret.value.confidence = "Media"

\* the negative scenario text was scored and the generic engine answered
NegativeScenarioCall == EnhancedCall /\ arg = Str(NegativeScenarioText) /\ ~engine.raises

\* the matches of the negative scenario are terms of weight -0.9, the crypto_score is their
\* sum and the label is 'Negativo'
NegativeScenarioScore ==
    /\ Range(ret.value.crypto_terms_found) = {"liquidated", "rug pull", "rekt", "scam"}
    /\ ret.value.crypto_matches = 4
    /\ \A k \in 1..Len(internal.crypto_analysis.matches) :
          internal.crypto_analysis.matches[k].score = -900000
    /\ ret.value.crypto_score = 4 * (-900000)
    /\ ret.value.sentiment_label = "Negativo"

\* C11: for 'rug pull scam, total rekt, liquidated', whatever polarity the generic engine
\* answers, the crypto_score is the sum of the matched -0.9 terms and the label is
\* 'Negativo'; the confidence is 'Alta' when the generic polarity is above 0.2 in absolute
\* value and 'Media' otherwise
C11_NegativeScenario ==
    NegativeScenarioCall =>
        /\ NegativeScenarioScore
        /\ ret.value.confidence
               = IF Abs(engine.polarity) > 200000 THEN "Alta" ELSE "Media"

\* C11 as the spec states it: the confidence is 'Alta' whatever the generic polarity
C11_NegativeScenarioAlwaysAlta ==
    NegativeScenarioCall => (NegativeScenarioScore /\ ret.value.confidence = "Alta")

\* the negative scenario text was scored with a generic polarity of 0, to 'Media'
C11_Witness ==
    /\ NegativeScenarioCall
    /\ engine.polarity = 0
    /\ NegativeScenarioScore
    /\ ret.value.confidence = "Media"

\* C12: with a deterministic engine, the record analyze_enhanced_sentiment returns for a
\* text is the one its first call on this analyzer returned, whatever calls, single or in
\* batch, were made before
C12_SameRecordEveryCall ==
    (EnhancedCall /\ history # Nothing) =>
        /\ arg \in DOMAIN history.first
        /\ ret.value = history.first[arg]

\* a text with lexicon terms is scored for the second time, after a batch and after a call
\* on another text
C12_Witness ==
    /\ EnhancedCall
    /\ history # Nothing
    /\ history.calls[arg] >= 2
    /\ history.batches >= 1
    /\ \E t \in DOMAIN history.first : t # arg
    /\ ret.value.crypto_matches > 0

\* C13: no call of preprocess_text, analyze_crypto_terms, analyze_enhanced_sentiment or
\* analyze_batch_sentiment changes crypto_terms (keys, weights, order) or the emoji lists
C13_LexiconImmutable ==
    /\ crypto_terms = init_crypto_dictionaries
    /\ positive_emojis = init_positive_emojis
    /\ negative_emojis = init_negative_emojis

\* analyze_crypto_terms returned matches after single calls and a batch of the session
C13_Witness ==
    /\ op = "analyze_crypto_terms"
    /\ ret.value.match_count > 0
    /\ history # Nothing
    /\ history.batches >= 1
    /\ \E t \in DOMAIN history.calls : history.calls[t] >= 1

PipelineCall == op = "run_crypto_etl_pipeline"

\* the price collection of the run failed: the request failed or the price was null
PriceFailed ==
    PipelineCall /\ (engine.price.status = "request_fails" \/ engine.price.usd.kind = "none")

\* the message of the failure
FailureMessage ==
    IF engine.price.status = "request_fails" THEN engine.price.message
    ELSE "unsupported format string passed to NoneType.__format__"

\* C14: run_crypto_etl_pipeline never raises; when the price collection fails it returns
\* success = False and an error text that contains the failure message, and in that run
\* the only call made is get_bitcoin_price: no texts are collected, no sentiment is
\* analysed, no report is written and no S3 upload is attempted
C14_PriceFailureStopsRun ==
    PipelineCall =>
        /\ ~ret.raised
        /\ PriceFailed =>
              /\ ret.value.success = FALSE
              /\ Contains(Chars(ret.value.error), Chars(FailureMessage))
              /\ internal.calls = <<"get_bitcoin_price">>
              /\ internal.rss = <<>>
              /\ internal.alt = <<>>
              /\ ~internal.report.written

C14_Witness ==
    /\ PriceFailed
    /\ engine.price.status = "request_fails"
    /\ arg = TRUE
    /\ engine.s3 = "uploaded"
    /\ ret.value.success = FALSE

\* how often a call is in the trace of the run
Times(call) == Cardinality({i \in 1..Len(internal.calls) : internal.calls[i] = call})

\* the data rows of the report of the run
DataRows == SubSeq(internal.report.file, 1, Len(internal.report.file) - 1)

\* C15: in every pipeline run that collects texts, the alternative source is queried
\* exactly once when the RSS collection returned fewer than 5 items and never when it
\* returned 5 or more; the report lists the RSS items first and the alternative items
\* after them, and on success total_texts_analyzed is the number of RSS items plus the
\* number of alternative items
C15_AlternativeFallback ==
    PipelineCall /\ Times("collect_bitcoin_tweets_rss") = 1 =>
        /\ Len(internal.rss) < 5 => Times("collect_bitcoin_news_alternative") = 1
        /\ Len(internal.rss) >= 5 =>
              /\ Times("collect_bitcoin_news_alternative") = 0
              /\ internal.alt = <<>>
        /\ internal.report.written =>
              /\ Len(DataRows) = Len(internal.rss) + Len(internal.alt)
              /\ \A i \in 1..Len(internal.rss) :
                    /\ DataRows[i].tweet_source = "rss_feed"
                    /\ DataRows[i].tweet_text = internal.rss[i].text.s
              /\ \A j \in 1..Len(internal.alt) :
                    /\ DataRows[Len(internal.rss) + j].tweet_source = "crypto_news"
                    /\ DataRows[Len(internal.rss) + j].tweet_text = internal.alt[j].text.s
        /\ ret.value.success =>
              ret.value.total_texts_analyzed = Len(internal.rss) + Len(internal.alt)

C15_Witness ==
    /\ PipelineCall
    /\ ret.value.success
    /\ Len(internal.rss) = 4
    /\ Len(internal.alt) = 2
    /\ ret.value.total_texts_analyzed = 6

\* the S3 step of the run was entered and failed
UploadFailed ==
    /\ PipelineCall
    /\ arg = TRUE
    /\ internal.report.written
    /\ engine.s3 \in {"init_raises", "upload_raises", "upload_false"}

\* the mean of the polarities the report of the run lists
ReportedMean ==
    Mean([i \in 1..Len(DataRows) |-> [polarity |-> DataRows[i].sentiment_polarity]])

\* C16: once the report is written, if S3Manager() or upload_report raises or upload_report
\* returns success = False, the pipeline still returns success = True with the btc_price,
\* avg_sentiment, total_texts_analyzed and report_path of the run (the collected price, the
\* mean and the number of the reported polarities, the path of the written report), plus
\* an s3_upload entry whose success is False
C16_UploadFailureKeepsRun ==
    UploadFailed =>
        /\ ret.value.success = TRUE
        /\ ret.value.btc_price = (IF engine.price.usd.kind = "number"
                                  THEN engine.price.usd.n ELSE 0)
        /\ ret.value.avg_sentiment = ReportedMean
        /\ ret.value.total_texts_analyzed = Len(DataRows)
        /\ ret.value.report_path = ReportPath
        /\ "s3_upload" \in DOMAIN ret.value
        /\ ret.value.s3_upload.success = FALSE

C16_Witness ==
    /\ UploadFailed
    /\ engine.s3 = "upload_raises"
    /\ ret.value.success
    /\ ret.value.s3_upload.success = FALSE

ReportCall == op = "generate_comprehensive_report"

\* the number of pairs of zip(sentiment_results, tweets_data)
Pairs == Min({Len(arg.sentiment_results), Len(arg.tweets_data)})

\* C17: a call of generate_comprehensive_report that returns has written the file; the
\* file holds one data row per (sentiment, text) pair in input order, row i (from 0) with
\* tweet_index i, the text and the polarity of pair i, followed by exactly one row labelled
\* 'RESUMO' when there is at least one data row, and no row at all when there is no pair
C17_ReportShape ==
    ReportCall /\ ~ret.raised =>
        LET file == internal.file
            summaries == {i \in 1..Len(file) : file[i].sentiment_label = "RESUMO"}
        IN  /\ internal.written
            /\ ret.value = ReportPath
            /\ Pairs = 0 => file = <<>>
            /\ Pairs > 0 =>
                  /\ Len(file) = Pairs + 1
                  /\ summaries = {Pairs + 1}
                  /\ \A i \in 1..Pairs :
                        /\ file[i].tweet_index = i - 1
                        /\ file[i].sentiment_polarity =
                               Get(arg.sentiment_results[i], "polarity", 0)
                        /\ file[i].tweet_text =
                               SubSeq(arg.tweets_data[i].text.s, 1,
                                      Min({500, Len(arg.tweets_data[i].text.s)}))

C17_Witness ==
    /\ ReportCall
    /\ ~ret.raised
    /\ Len(arg.sentiment_results) = 2
    /\ Len(arg.tweets_data) = 2
    /\ Len(internal.file) = 3
    /\ internal.file[3].sentiment_label = "RESUMO"
    /\ internal.file[2].tweet_index = 1

\* a call without pairs writes a file without rows
C17_EmptyWitness ==
    /\ ReportCall
    /\ arg.sentiment_results = <<>>
    /\ arg.tweets_data = <<>>
    /\ internal.written
    /\ internal.file = <<>>

RssCall == op = "collect_bitcoin_tweets_rss"

\* the item mentions one of the three terms in its title or in its description
Mentions(tweet) ==
    \E term \in {"bitcoin", "btc", "crypto"} :
        \/ Contains(Lower(tweet.text.s), Chars(term))
        \/ IsStr(tweet.description) /\ Contains(Lower(tweet.description.s), Chars(term))

\* a source without items
EmptyFeed == Parsed(<<>>)

\* C18: collect_bitcoin_tweets_rss never raises and requests every source in the order of
\* the list; when a source fails to be fetched or parsed the result is what the other
\* source alone gives; when both fail the result is the empty list; and every returned
\* item mentions 'bitcoin', 'btc' or 'crypto' in its title or description
C18_RssFailureIsolation ==
    RssCall =>
        /\ ~ret.raised
        /\ internal = rss_sources
        /\ engine[1].status # "ok" =>
              ret.value = collect_bitcoin_tweets_rss(<<EmptyFeed, engine[2]>>)
        /\ engine[2].status # "ok" =>
              ret.value = collect_bitcoin_tweets_rss(<<engine[1], EmptyFeed>>)
        /\ engine[1].status # "ok" /\ engine[2].status # "ok" => ret.value = <<>>
        /\ \A i \in 1..Len(ret.value) : Mentions(ret.value[i])

C18_Witness ==
    /\ RssCall
    /\ engine[1].status = "parse_fails"
    /\ engine[2].status = "ok"
    /\ Len(engine[2].items) = 1
    /\ Len(ret.value) = 1

\* the second source fails after the first gave a kept and a dropped item
C18_SecondFailsWitness ==
    /\ RssCall
    /\ engine[1].status = "ok"
    /\ Len(engine[1].items) = 2
    /\ engine[2].status = "fetch_fails"
    /\ Len(ret.value) = 1

\* validate_results is in a finished state of the run
ValidateFinished == dag_run.state["validate_results"] \in Finished

\* cleanup_old_files has been executed
CleanupExecuted == dag_run.state["cleanup_old_files"] = "success"

\* C19: in every DAG run, once validate_results is finished (it succeeded, it failed, or
\* it was not run because an upstream task failed) cleanup_old_files is eventually
\* executed; cleanup_old_files never fails and is never retried: it returns a status
C19_CleanupAlwaysRuns ==
    /\ ValidateFinished ~> CleanupExecuted
    /\ [](/\ dag_run.state["cleanup_old_files"] \in {"none", "success"}
          /\ CleanupExecuted =>
                /\ ValidateFinished
                /\ dag_run.try_number["cleanup_old_files"] = 1
                /\ dag_run.xcom["cleanup_old_files"].status
                       \in {"cleanup_completed", "cleanup_failed"})

\* cleanup_old_files was executed after validate_results failed its last retry
C19_ValidateFailedWitness ==
    /\ dag_run.state["validate_results"] = "failed"
    /\ dag_run.state["generate_summary"] = "upstream_failed"
    /\ CleanupExecuted

C19_Witness ==
    /\ dag_run.state["check_dependencies"] = "failed"
    /\ dag_run.state["execute_pipeline"] = "upstream_failed"
    /\ dag_run.state["validate_results"] = "upstream_failed"
    /\ CleanupExecuted
    /\ dag_run.xcom["cleanup_old_files"].status = "cleanup_failed"

\* validate_results has run on the result of a pipeline run
Validated ==
    /\ dag_run.try_number["validate_results"] > 0
    /\ dag_run.xcom["execute_pipeline"] # Nothing

\* the S3 upload of that pipeline run succeeded
Uploaded ==
    /\ "s3_upload" \in DOMAIN dag_run.xcom["execute_pipeline"]
    /\ dag_run.xcom["execute_pipeline"].s3_upload.success

\* C20: whenever validate_results has run on the result of a pipeline run whose S3 upload
\* succeeded, its validations hold 'Upload S3 realizado' and no S3 warning; the S3 warning
\* is among them only when the upload did not succeed
C20_UploadConfirmed ==
    Validated =>
        /\ Uploaded =>
              /\ dag_run.log[4] = Passed("Upload S3 realizado")
              /\ \A i \in 1..Len(dag_run.log) :
                    dag_run.log[i] # Warning("Upload S3 nao confirmado")
        /\ dag_run.log[4] = Warning("Upload S3 nao confirmado") => ~Uploaded

\* the place of a term among the keys of the lexicon, in dict order
DictIndex(term) == CHOOSE i \in 1..Len(crypto_terms) : crypto_terms[i].term = term

RECURSIVE SumScores(_)
\* the sum of the weights of a list of matches
SumScores(matches) ==
    IF matches = <<>> THEN 0 ELSE matches[1].score + SumScores(Tail(matches))

\* the first place of the text where the k-th match occurs (0 when it occurs nowhere)
FirstPlace(k) ==
    LET occ == Occ(Lower(arg), Chars(ret.value.matches[k].term))
    IN  IF occ = {} THEN 0 ELSE Min(occ)

\* C21: single count per term: each lexicon term appears at most once in the matches of
\* analyze_crypto_terms however many times it occurs in the text, every match is an item
\* of the lexicon, match_count is the number of matches, crypto_score is the sum of their
\* weights, and the matches are listed by descending term length, terms of one length in
\* the order of the lexicon (not by position in the text)
C21_SingleCountPerTerm ==
    TermsCall =>
        LET matches == ret.value.matches
        IN  /\ \A j, k \in 1..Len(matches) : j # k => matches[j].term # matches[k].term
            /\ \A k \in 1..Len(matches) : matches[k] \in Range(crypto_terms)
            /\ ret.value.match_count = Len(matches)
            /\ ret.value.crypto_score = SumScores(matches)
            /\ \A j, k \in 1..Len(matches) :
                  j < k =>
                      \/ Len(matches[j].term) > Len(matches[k].term)
                      \/ /\ Len(matches[j].term) = Len(matches[k].term)
                         /\ DictIndex(matches[j].term) < DictIndex(matches[k].term)

\* a term that occurs more than once in the text was matched, and two matches are listed
\* against the order of their places in the text
C21_Witness ==
    /\ TermsCall
    /\ \E k \in 1..Len(ret.value.matches) :
          Cardinality(Occ(Lower(arg), Chars(ret.value.matches[k].term))) >= 2
    /\ \E j, k \in 1..Len(ret.value.matches) :
          j < k /\ FirstPlace(k) > 0 /\ FirstPlace(j) > FirstPlace(k)

\* the places of a call in the trace of the run
Places(call) == {i \in 1..Len(internal.calls) : internal.calls[i] = call}

\* every call of one kind comes, in the trace of the run, after a call of another kind
After(later, earlier) ==
    \A i \in Places(later) : \E j \in Places(earlier) : j < i

\* the calls that collect texts, and those of the S3 step
CollectCalls == {"collect_bitcoin_tweets_rss", "collect_bitcoin_news_alternative"}
S3Calls == {"S3Manager", "upload_report"}

\* the sentiment analysis of the run raised
AnalysisRaised ==
    /\ ret.value.success = FALSE
    /\ ret.value.error = "object of type 'NoneType' has no len()"

\* C22: pipeline step ordering: in every run texts are collected only after the price was
\* obtained, sentiment is analysed only after a non-empty list of texts was collected, the
\* report is written only after the sentiment analysis returned, and an S3 upload is
\* attempted at most once, only after the report was written and only when upload_to_s3
\* is true and the S3 module is available
C22_StepOrdering ==
    PipelineCall =>
        /\ \A c \in CollectCalls :
              Places(c) # {} => (After(c, "get_bitcoin_price") /\ ~PriceFailed)
        /\ Places("analyze_batch_sentiment") # {} =>
              /\ After("analyze_batch_sentiment", "collect_bitcoin_tweets_rss")
              /\ \A i \in Places("collect_bitcoin_news_alternative") :
                    \A j \in Places("analyze_batch_sentiment") : i < j
              /\ internal.rss \o internal.alt # <<>>
        /\ Places("generate_comprehensive_report") # {} =>
              /\ After("generate_comprehensive_report", "analyze_batch_sentiment")
              /\ ~AnalysisRaised
        /\ internal.report.written => Places("generate_comprehensive_report") # {}
        /\ \A c \in S3Calls :
              /\ Times(c) <= 1
              /\ Places(c) # {} =>
                    /\ After(c, "generate_comprehensive_report")
                    /\ internal.report.written
                    /\ arg = TRUE
                    /\ engine.s3 # "unavailable"
        /\ After("upload_report", "S3Manager")

\* a run that made every step: the price, both collections, the analysis, the report and
\* the upload
C22_Witness ==
    /\ PipelineCall
    /\ internal.calls = <<"get_bitcoin_price", "collect_bitcoin_tweets_rss",
                          "collect_bitcoin_news_alternative", "analyze_batch_sentiment",
                          "generate_comprehensive_report", "S3Manager", "upload_report">>
    /\ internal.report.written

\* a run that wrote its report and, the upload not being asked for, left S3 alone
C22_NoUploadWitness ==
    /\ PipelineCall
    /\ internal.report.written
    /\ arg = FALSE
    /\ engine.s3 = "uploaded"
    /\ Times("S3Manager") = 0

\* the RSS collection and the alternative source of the run together gave no item
NoTexts ==
    /\ PipelineCall
    /\ ~PriceFailed
    /\ internal.rss = <<>>
    /\ internal.alt = <<>>

\* C23: no texts, no report: when the RSS collection and the alternative source together
\* yield zero items, run_crypto_etl_pipeline returns success = False with an error, and in
\* that run no sentiment analysis is performed, no report file is written and no S3 upload
\* is attempted
C23_NoTextsNoReport ==
    NoTexts =>
        /\ ~ret.raised
        /\ ret.value.success = FALSE
        /\ "error" \in DOMAIN ret.value
        /\ ret.value.error = "Nenhum dado de texto coletado"
        /\ Times("collect_bitcoin_news_alternative") = 1
        /\ Times("analyze_batch_sentiment") = 0
        /\ Times("generate_comprehensive_report") = 0
        /\ ~internal.report.written
        /\ Times("S3Manager") = 0
        /\ Times("upload_report") = 0

\* both sources were asked and gave nothing, in a run that was to upload its report
C23_Witness ==
    /\ NoTexts
    /\ arg = TRUE
    /\ engine.s3 = "uploaded"
    /\ engine.report = "written"
    /\ internal.calls = <<"get_bitcoin_price", "collect_bitcoin_tweets_rss",
                          "collect_bitcoin_news_alternative">>
    /\ ret.value.success = FALSE

\* the task was started at least once in the run
Started(task) == dag_run.try_number[task] > 0

\* the task finished with success
Succeeded(task) == dag_run.state[task] = "success"

\* the last try of execute_pipeline got success = False from run_crypto_etl_pipeline
LastPipelineFailed ==
    /\ dag_run.pipeline # <<>>
    /\ ~dag_run.pipeline[Len(dag_run.pipeline)]

\* C24: DAG task ordering: in every DAG run execute_pipeline starts only after
\* check_dependencies succeeded, validate_results only after execute_pipeline succeeded
\* and generate_summary only after validate_results succeeded; a try of execute_pipeline
\* in which run_crypto_etl_pipeline returns success = False does not succeed and pushes
\* nothing, so validate_results and generate_summary never run on the result of a failed
\* pipeline
C24_TaskOrdering ==
    /\ Started("execute_pipeline") => Succeeded("check_dependencies")
    /\ Started("validate_results") => Succeeded("execute_pipeline")
    /\ Started("generate_summary") => Succeeded("validate_results")
    /\ Len(dag_run.pipeline) = dag_run.try_number["execute_pipeline"]
    /\ LastPipelineFailed =>
          /\ dag_run.state["execute_pipeline"] \in {"up_for_retry", "failed"}
          /\ dag_run.xcom["execute_pipeline"] = Nothing
    /\ (Started("validate_results") \/ Started("generate_summary")) =>
          /\ ~LastPipelineFailed
          /\ dag_run.xcom["execute_pipeline"] # Nothing
          /\ dag_run.xcom["execute_pipeline"].success = TRUE

\* a run whose pipeline failed in the first try of execute_pipeline and succeeded in the
\* second, after which validate_results and generate_summary ran
C24_Witness ==
    /\ dag_run.pipeline = <<FALSE, TRUE>>
    /\ Succeeded("validate_results")
    /\ Succeeded("generate_summary")

\* a run whose pipeline failed in every try: execute_pipeline failed, and validate_results
\* and generate_summary were never started
C24_FailedWitness ==
    /\ dag_run.pipeline = [i \in 1..(retries + 1) |-> FALSE]
    /\ dag_run.state["execute_pipeline"] = "failed"
    /\ dag_run.state["validate_results"] = "upstream_failed"
    /\ dag_run.state["generate_summary"] = "upstream_failed"
    /\ ~Started("validate_results")
    /\ ~Started("generate_summary")

\* validate_results was called on a result that passed its first test
ValidateCall == op = "validate_results" /\ arg # Nothing

\* the number of warnings among the logged validations
WarningCount == Cardinality({i \in 1..Len(internal) : internal[i].warning})

\* C25: validation threshold: validate_results evaluates exactly four checks (price above
\* 1000, at least 5 texts, avg_sentiment in [-1, 1], S3 upload confirmed), in this order,
\* and raises if and only if more than two of them produce a warning; with two or fewer
\* warnings it returns the list of the four validation messages and the warning count
C25_ValidationThreshold ==
    ValidateCall =>
        /\ Len(internal) = 4
        /\ internal[1] = IF Get(arg, "btc_price", 0) > 1000
                         THEN Passed("Preco Bitcoin valido")
                         ELSE Warning("Preco Bitcoin suspeito")
        /\ internal[2] = IF Get(arg, "total_texts_analyzed", 0) >= 5
                         THEN Passed("Quantidade adequada de textos")
                         ELSE Warning("Poucos textos analisados")
        /\ LET avg == Get(arg, "avg_sentiment", [sum |-> 0, count |-> 1])
           IN  internal[3] = IF /\ -1000000 * avg.count <= avg.sum
                                /\ avg.sum <= 1000000 * avg.count
                             THEN Passed("Sentimento dentro do range esperado")
                             ELSE Warning("Sentimento fora do range")
        /\ internal[4] \in {Passed("Upload S3 realizado"), Warning("Upload S3 nao confirmado")}
        /\ ret.raised <=> WarningCount > 2
        /\ ~ret.raised =>
              /\ ret.value.validations = internal
              /\ ret.value.warnings = WarningCount

\* exactly two warnings (the price and the sentiment): the four messages and the count 2
\* are returned
C25_Witness ==
    /\ ValidateCall
    /\ WarningCount = 2
    /\ internal[1].warning
    /\ internal[3].warning
    /\ ~ret.raised
    /\ ret.value.warnings = 2

\* exactly three warnings: the call raises
C25_RaisesWitness ==
    /\ ValidateCall
    /\ WarningCount = 3
    /\ ~internal[4].warning
    /\ ret.raised

\* -1 <= polarity <= 1, in millionths
PolarityInRange(polarity) == -1000000 <= polarity /\ polarity <= 1000000

\* C26: sentiment range assumed by validation: the avg_sentiment reported by every
\* successful pipeline run, and the polarity of every record it averages, lies in
\* [-1, 1], the range validate_results treats as the valid range of sentiment
C26_SentimentInRange ==
    (PipelineCall /\ ret.value.success) =>
        /\ -1000000 * ret.value.avg_sentiment.count <= ret.value.avg_sentiment.sum
        /\ ret.value.avg_sentiment.sum <= 1000000 * ret.value.avg_sentiment.count
        /\ \A i \in 1..Len(DataRows) : PolarityInRange(DataRows[i].sentiment_polarity)

\* C27: matches are real occurrences: every term that analyze_crypto_terms lists as
\* matched occurs as a contiguous substring of the lower-cased text it was given, as the
\* text was before any erasure; replacing an earlier match by a space never creates a
\* match for a term that was not in the input
C27_MatchesAreOccurrences ==
    TermsCall =>
        \A k \in 1..Len(ret.value.matches) :
            Occ(Lower(arg), Chars(ret.value.matches[k].term)) # {}

====
